---- MODULE Spec2Model ----
(***************************************************************************)
(* Model of the release tooling of hybrid_scripts_python:                  *)
(*   - release.py        main / prepare_release / create_release           *)
(*   - adapters/base.py  BaseReleaseAdapter (scanners, git operations)     *)
(*   - adapters/ada.py   AdaReleaseAdapter (alire.toml, build, tests)      *)
(* External programs (git, gh, make, alr) and the operator at the prompt   *)
(* are the environment: their exit codes and answers are drawn with \E.    *)
(***************************************************************************)
EXTENDS Integers, Sequences, FiniteSets, TLC

\* ------------------------------------------------------------------ bounds
MaxLines == 2          \* longest alire.toml (in lines) that is enumerated
MaxFindings == 1       \* most findings a scanner reports
MaxRuns == 2           \* how often the release command is run in a row

\* --------------------------------------------------------- small universes
Versions == {"0.1.0", "0.2.0"}
VersionArgs == {"0.2.0", "", "1.0", "v0.2.0", "0.2.0-rc.1+b7", "0.2.0\n"}
Vals == Versions \cup {""}
SkippableStages == {"windows", "spark", "exceptions"}
Responses == {"", "q", "s"}

Range(q) == {q[i] : i \in DOMAIN q}

\* One line of alire.toml:  [indent]key = "val"
Line == [indent : BOOLEAN, key : {"version", "name"}, val : Vals]

RECURSIVE SeqsUpTo(_, _)
SeqsUpTo(S, n) ==
  IF n = 0 THEN {<<>>}
  ELSE LET shorter == SeqsUpTo(S, n - 1)
       IN  shorter \cup {Append(s, x) : s \in {t \in shorter : Len(t) = n - 1}, x \in S}

VARIABLES
  pc,           \* position of the running command ("main", a stage, "done")
  prompt,       \* stage whose prompt_user_continue is waiting, or "none"
  answer,       \* the operator's last response: [stage, r], r = "none" before one
  result,       \* "running", or what prepare_release / create_release returned
  exit_code,    \* what main returned (-1 while it runs)
  trace,        \* adapter operations invoked so far in this run, in order
  scan,         \* what the last stage returned: [stage, ok, n], and the mandatory
                \* stages of this run that returned success (passed)
  cli,          \* command line: [action, skip, version, dry_run]
  skip_stages,  \* config.skip_stages
  fs,           \* project tree facts: [makefile, readme, changelog, workflow]
  alire,        \* root alire.toml: [exists, lines], lines a sequence of Line
  writes,       \* files written (created, renamed) by the last stage
  cmds,         \* state-changing subprocesses started by the last stage
  touched,      \* some stage of this run wrote a file or started such a subprocess
  outcome,      \* what the gating tools answered: [failed, build, tests, counted, exc]
  git,          \* repository and remote state seen by create_release
  runs,         \* number of runs of the command so far
  uv,           \* calls of update_version: [orig, before, ret, calls, wrote]
  unit          \* a function called on its own: its kind, inputs and results

vars == <<pc, prompt, answer, result, exit_code, trace, scan, cli, skip_stages, fs,
          alire, writes, cmds, touched, outcome, git, runs, uv, unit>>

\* ------------------------------------------------ alire.toml (adapters/ada.py)
NoFile == [exists |-> FALSE, lines |-> <<>>]
File(ls) == [exists |-> TRUE, lines |-> ls]

\* re.search(r'^version\s*=\s*"([^"]+)"', content, re.MULTILINE): the first
\* line that starts with the word version (no indentation) and holds a
\* non-empty quoted value; 0 when there is none.
CurrentMatch(content) ==
  LET hits == {i \in DOMAIN content :
                 /\ content[i].key = "version"
                 /\ ~content[i].indent
                 /\ content[i].val # ""}
  IN  IF hits = {} THEN 0 ELSE CHOOSE i \in hits : \A j \in hits : i <= j

\* re.sub(r'^(\s*version\s*=\s*")[^"]+(")', r'\g<1>V\g<2>', content, MULTILINE):
\* every version line, indented or not, with a non-empty value gets value V.
SubVersion(content, v) ==
  [i \in DOMAIN content |->
     IF content[i].key = "version" /\ content[i].val # ""
     THEN [content[i] EXCEPT !.val = v]
     ELSE content[i]]

\* an update that starts a file of its own when alire.toml is missing
update_version_creating(file, v) ==
  IF ~file.exists
  THEN [ret |-> FALSE,
        file |-> File(<<[indent |-> FALSE, key |-> "version", val |-> v]>>),
        wrote |-> TRUE]
  ELSE [ret |-> TRUE, file |-> [file EXCEPT !.lines = SubVersion(file.lines, v)],
        wrote |-> TRUE]

\* AdaReleaseAdapter.update_version: [ret, file, wrote]
update_version(file, v) ==
  IF ~file.exists
  THEN [ret |-> FALSE, file |-> file, wrote |-> FALSE]
  ELSE LET content == file.lines
           m == CurrentMatch(content)
       IN  IF m # 0 /\ content[m].val = v
           THEN [ret |-> TRUE, file |-> file, wrote |-> FALSE]
           ELSE IF SubVersion(content, v) = content
                THEN [ret |-> FALSE, file |-> file, wrote |-> FALSE]
                ELSE [ret |-> TRUE,
                      file |-> [file EXCEPT !.lines = SubVersion(content, v)],
                      wrote |-> TRUE]

\* re.search(r'^\s*version\s*=\s*"([^"]+)"', ...) of generate_version_file
\* and the name field it needs next to it.
HasVersionField(file) ==
  \E i \in DOMAIN file.lines : file.lines[i].key = "version" /\ file.lines[i].val # ""
HasNameField(file) ==
  \E i \in DOMAIN file.lines : file.lines[i].key = "name" /\ file.lines[i].val # ""

\* ------------------------------------------------ README.md (adapters/base.py)
\* README.md is a sequence of sections [h, body]: h the kind of a level 1-3
\* heading ("contributing", "ai", "license", "spark", "other"), body the
\* phrases the section's text matches.
RequiredPhrases == {"human developer", "AI assistant", "tool", "accountable"}
\* what the pattern of a required phrase accepts: AI\s+(?:coding\s+)?assistant,
\* responsible|accountable|maintain
Accepted(phrase) ==
  CASE phrase = "AI assistant" -> {"AI assistant", "AI coding assistant"}
    [] phrase = "accountable"  -> {"responsible", "accountable", "maintain"}
    [] OTHER                   -> {phrase}
Section(h, body) == [h |-> h, body |-> body]
NoReadme == [exists |-> FALSE, sections |-> <<>>]
Readme(secs) == [exists |-> TRUE, sections |-> secs]

\* line of the first heading of kind h (re.search returns the first match)
FirstIdx(secs, h) ==
  LET hits == {i \in DOMAIN secs : secs[i].h = h}
  IN  IF hits = {} THEN 0 ELSE CHOOSE i \in hits : \A j \in hits : i <= j

\* a scan that looks for the section and its phrases but not at its place
validate_ai_assistance_section_anywhere(readme) ==
  IF ~readme.exists THEN [ok |-> FALSE, n |-> 1]
  ELSE LET secs == readme.sections
           ai == FirstIdx(secs, "ai")
       IN  IF ai = 0 THEN [ok |-> FALSE, n |-> 3]
           ELSE LET missing == {p \in RequiredPhrases : Accepted(p) \cap secs[ai].body = {}}
                IN  [ok |-> TRUE,
                     n  |-> IF missing = {} THEN 0 ELSE 1 + Cardinality(missing)]

\* BaseReleaseAdapter.validate_ai_assistance_section: [ok, n]
\* n counts the entries of the returned list; ok is False only for the
\* entries marked with a cross.
validate_ai_assistance_section(readme) ==
  IF ~readme.exists THEN [ok |-> FALSE, n |-> 1]
  ELSE LET secs == readme.sections
           ai == FirstIdx(secs, "ai")
           co == FirstIdx(secs, "contributing")
           li == FirstIdx(secs, "license")
       IN  IF ai = 0 THEN [ok |-> FALSE, n |-> 3]
           ELSE LET before == co # 0 /\ ai < co
                    after == li # 0 /\ ai > li
                    missing == {p \in RequiredPhrases : Accepted(p) \cap secs[ai].body = {}}
                IN  [ok |-> ~before /\ ~after,
                     n  |-> (IF before THEN 2 ELSE 0) + (IF after THEN 2 ELSE 0)
                            + (IF missing = {} THEN 0 ELSE 1 + Cardinality(missing))]

\* BaseReleaseAdapter.validate_spark_section for an Ada project: [ok, n]
validate_spark_section(readme) ==
  IF ~readme.exists THEN [ok |-> FALSE, n |-> 1]
  ELSE LET secs == readme.sections
           sp == FirstIdx(secs, "spark")
       IN  IF sp = 0 THEN [ok |-> FALSE, n |-> 3]
           ELSE IF "CHANGELOG" \in secs[sp].body THEN [ok |-> TRUE, n |-> 0]
           ELSE IF "metrics" \in secs[sp].body THEN [ok |-> TRUE, n |-> 3]
           ELSE [ok |-> TRUE, n |-> 0]

\* ------------------------------------------------ command line (release.py main)
\* --skip is a comma separated list; a token is written as typed.
Lower(t) == CASE t = "ALL" -> "all" [] t = "Spark" -> "spark" [] OTHER -> t
Strip(t) == CASE t = " windows" -> "windows" [] t = " all" -> "all" [] OTHER -> t

\* main's parsing with a table of skippable stages that lacks "exceptions"
ParseSkipShortTable(skip) ==
  IF skip = <<>> THEN [ok |-> TRUE, stages |-> {}]
  ELSE IF Len(skip) = 1 /\ Lower(skip[1]) = "all"
       THEN [ok |-> TRUE, stages |-> {"windows", "spark"}]
       ELSE LET named == {Lower(Strip(skip[i])) : i \in DOMAIN skip}
            IN  [ok |-> named \subseteq SkippableStages, stages |-> named]

\* main, lines 927-940: [ok, stages]
ParseSkip(skip) ==
  IF skip = <<>> THEN [ok |-> TRUE, stages |-> {}]
  ELSE IF Len(skip) = 1 /\ Lower(skip[1]) = "all"
       THEN [ok |-> TRUE, stages |-> SkippableStages]
       ELSE LET named == {Lower(Strip(skip[i])) : i \in DOMAIN skip}
            IN  [ok |-> named \subseteq SkippableStages, stages |-> named]

\* ------------------------------------------------ prepare_release (release.py)
\* The stages in the order prepare_release declares them.
PrepareOrder ==
  << "validate_makefile", "validate_links", "validate_documentation",
     "validate_ai_assistance_section", "scan_git_history_for_ai_markers",
     "scan_for_code_markers", "scan_for_long_files",
     "validate_exception_boundaries", "cleanup_temp_files", "update_version",
     "sync_versions", "generate_version_file", "update_all_markdown_files",
     "validate_spark_section", "changelog_checkpoint", "update_changelog",
     "run_build", "run_tests", "update_test_counts_in_docs",
     "commit_checkpoint", "run_spark_check", "run_windows_validation",
     "verify_submodules_current", "reset_config" >>

StageIdx(s) == CHOOSE i \in DOMAIN PrepareOrder : PrepareOrder[i] = s
\* an order of the stages in which the build no longer waits for the version
After_without_update_version(s) ==
  IF s = "cleanup_temp_files" THEN "sync_versions"
  ELSE IF StageIdx(s) = Len(PrepareOrder) THEN "return_true"
  ELSE PrepareOrder[StageIdx(s) + 1]
After(s) == IF StageIdx(s) = Len(PrepareOrder) THEN "return_true"
            ELSE PrepareOrder[StageIdx(s) + 1]

NoAnswer == [stage |-> "none", r |-> "none"]
Invoke(s) == trace' = Append(trace, s)
Effect(w, c) ==
  /\ writes' = w
  /\ cmds' = c
  /\ touched' = (touched \/ w # {} \/ c # {})
\* the stages whose failure ends prepare_release with return False
MandatoryStages ==
  { "validate_makefile", "validate_links", "validate_ai_assistance_section",
    "update_version", "update_changelog", "run_build", "run_tests",
    "run_spark_check", "run_windows_validation" }

Returned(s, ok, n) ==
  scan' = [stage |-> s, ok |-> ok, n |-> n,
           passed |-> IF ok /\ s \in MandatoryStages THEN scan.passed \cup {s}
                      ELSE scan.passed]

\* return from prepare_release / create_release, and main's exit code
\* (release.py line 1017: return 0 if success else 1)
Finish(b) ==
  /\ result' = (IF b THEN "True" ELSE "False")
  /\ exit_code' = (IF b THEN 0 ELSE 1)
  /\ pc' = "done"
  /\ prompt' = "none"
  /\ answer' = NoAnswer

Goto(s) ==
  /\ pc' = s
  /\ prompt' = "none"
  /\ answer' = NoAnswer
  /\ UNCHANGED <<result, exit_code>>

\* prompt_user_continue(message) is now waiting for the operator
Ask(s) ==
  /\ prompt' = s
  /\ answer' = NoAnswer
  /\ UNCHANGED <<pc, result, exit_code>>

At(s) == pc = s /\ prompt = "none" /\ result = "running"

\* a stage whose result is ignored: what a mandatory stage would be without
\* its "return False"
MandatoryFallsThrough(s, ok) == Goto(After(s)) /\ UNCHANGED outcome

\* a mandatory stage: its failure is remembered and ends prepare_release
Mandatory(s, ok) ==
  IF ok THEN Goto(After(s)) /\ UNCHANGED outcome
  ELSE Finish(FALSE) /\ outcome' = [outcome EXCEPT !.failed = s]

\* an advisory stage that only prints its findings
AdvisoryNeverAsks(s, ok) == Goto(After(s)) /\ UNCHANGED outcome

\* an advisory stage: a failure flag prompts, anything else goes on
Advisory(s, ok) ==
  /\ IF ok THEN Goto(After(s)) ELSE Ask(s)
  /\ UNCHANGED outcome

\* main up to the dispatch: argparse (an action outside its choices ends the
\* process with status 2), --skip, the version argument, the config.  All of
\* it runs before the try block: a KeyboardInterrupt raised there is not
\* caught and the interpreter ends with status 130, any other exception ends
\* it with status 1.  The validate action does nothing and succeeds.
ActionChoices == {"prepare", "release", "validate"}

\* the characters of a version argument
VersionText(v) ==
  CASE v = "0.1.0" -> <<"0", ".", "1", ".", "0">>
    [] v = "0.2.0" -> <<"0", ".", "2", ".", "0">>
    [] v = "1.0" -> <<"1", ".", "0">>
    [] v = "v0.2.0" -> <<"v", "0", ".", "2", ".", "0">>
    [] v = "0.2.0-rc.1+b7" -> <<"0", ".", "2", ".", "0", "-", "r", "c", ".", "1", "+", "b", "7">>
    [] v = "0.2.0\n" -> <<"0", ".", "2", ".", "0", "\n">>
    [] OTHER -> <<>>

IsDigit(c) == c \in {"0", "1", "2", "7"}
AllIn(q, Class(_)) == q # <<>> /\ \A i \in DOMAIN q : Class(q[i])
IsIdentChar(c) == IsDigit(c) \/ c \in {"r", "c", "b", "v", "."}

\* (-[a-zA-Z0-9.]+)?(\+[a-zA-Z0-9.]+)?
Suffixes(q) ==
  \E k \in 0..Len(q) :
    LET pre == SubSeq(q, 1, k)
        build == SubSeq(q, k + 1, Len(q))
    IN  /\ pre = <<>> \/ (pre[1] = "-" /\ AllIn(Tail(pre), IsIdentChar))
        /\ build = <<>> \/ (build[1] = "+" /\ AllIn(Tail(build), IsIdentChar))

\* \d+\.\d+\.\d+ and the suffixes, over the whole of q
MajorMinorPatch(q) ==
  \E i, j, k \in DOMAIN q :
    /\ i < j /\ j < k
    /\ q[i] = "." /\ q[j] = "."
    /\ AllIn(SubSeq(q, 1, i - 1), IsDigit)
    /\ AllIn(SubSeq(q, i + 1, j - 1), IsDigit)
    /\ AllIn(SubSeq(q, j + 1, k), IsDigit)
    /\ Suffixes(SubSeq(q, k + 1, Len(q)))

\* main, lines 949-954: re.match with ^...$; "$" also matches before a
\* newline that ends the string
SemverArg(v) ==
  LET q == VersionText(v)
  IN  \/ MajorMinorPatch(q)
      \/ q # <<>> /\ q[Len(q)] = "\n" /\ MajorMinorPatch(SubSeq(q, 1, Len(q) - 1))
Exit(code, res) == exit_code' = code /\ pc' = "done" /\ result' = res /\ UNCHANGED skip_stages
Main ==
  /\ pc = "main"
  /\ LET parsed == ParseSkip(cli.skip)
     IN  IF cli.action \notin ActionChoices THEN Exit(2, result)
         ELSE IF ~parsed.ok THEN Exit(1, result)
         ELSE IF cli.version = "" THEN Exit(1, result)
         ELSE IF ~SemverArg(cli.version) THEN Exit(1, result)
         ELSE IF ~cli.root THEN Exit(1, result)
         ELSE \/ Exit(130, "KeyboardInterrupt")
              \/ Exit(1, "Exception")
              \/ Exit(1, "no language")
              \/ cli.action = "validate" /\ Exit(0, "True")
              \/ /\ cli.action # "validate"
                 /\ skip_stages' = parsed.stages
                 /\ pc' = (IF cli.action = "prepare" THEN PrepareOrder[1]
                           ELSE "verify_clean_working_tree")
                 /\ result' = "running"
                 /\ UNCHANGED exit_code
  /\ UNCHANGED <<prompt, answer, trace, scan, cli, fs, alire, writes, cmds, touched, outcome, git, runs, uv, unit>>

\* Step 0a: BaseReleaseAdapter.validate_makefile; k targets of help, build,
\* clean succeed before one fails (k = 3: all succeed). make help only
\* prints; make build and make clean change the build tree.
MakeTargets == <<"make help", "make build", "make clean">>
Step0a_validate_makefile ==
  /\ At("validate_makefile")
  /\ Invoke("validate_makefile")
  /\ \E k \in 0..3 :
       LET ok == ~fs.makefile \/ k = 3
           ran == IF fs.makefile THEN {MakeTargets[i] : i \in 2..(IF k = 3 THEN 3 ELSE k + 1)} ELSE {}
       IN  /\ Effect({}, ran)
           /\ Returned("validate_makefile", ok, 0)
           /\ Mandatory("validate_makefile", ok)
  /\ UNCHANGED <<cli, skip_stages, fs, alire, git, runs, uv, unit>>

\* Step 0b: validate_links; the links are found valid or not
Step0b_validate_links ==
  /\ At("validate_links")
  /\ Invoke("validate_links")
  /\ \E ok \in BOOLEAN :
       /\ Returned("validate_links", ok, 0)
       /\ Mandatory("validate_links", ok)
  /\ Effect({}, {})
  /\ UNCHANGED <<cli, skip_stages, fs, alire, git, runs, uv, unit>>

\* validate_documentation, scan_for_code_markers and scan_for_long_files
\* return (len(findings) > 0 or == 0, findings)
ListScanner(s) ==
  /\ At(s)
  /\ Invoke(s)
  /\ \E n \in 0..MaxFindings :
       /\ Returned(s, n = 0, n)
       /\ Advisory(s, n = 0)
  /\ Effect({}, {})
  /\ UNCHANGED <<cli, skip_stages, fs, alire, git, runs, uv, unit>>

\* Step 0c
Step0c_validate_documentation == ListScanner("validate_documentation")

\* Step 0d made skippable: bypassed when every skippable stage is skipped
Step0d_skipped_by_all ==
  /\ At("validate_ai_assistance_section")
  /\ IF skip_stages = SkippableStages
     THEN /\ Goto(After("validate_ai_assistance_section"))
          /\ UNCHANGED <<trace, scan, outcome>>
     ELSE /\ Invoke("validate_ai_assistance_section")
          /\ LET r == validate_ai_assistance_section(fs.readme)
             IN  /\ Returned("validate_ai_assistance_section", r.ok, r.n)
                 /\ Mandatory("validate_ai_assistance_section", r.ok)
  /\ Effect({}, {})
  /\ UNCHANGED <<cli, skip_stages, fs, alire, git, runs, uv, unit>>

\* Step 0d: validate_ai_assistance_section; not valid ends the run, no prompt
Step0d_validate_ai_assistance_section ==
  /\ At("validate_ai_assistance_section")
  /\ Invoke("validate_ai_assistance_section")
  /\ LET r == validate_ai_assistance_section(fs.readme)
     IN  /\ Returned("validate_ai_assistance_section", r.ok, r.n)
         /\ Mandatory("validate_ai_assistance_section", r.ok)
  /\ Effect({}, {})
  /\ UNCHANGED <<cli, skip_stages, fs, alire, git, runs, uv, unit>>

\* Step 0e: scan_git_history_for_ai_markers; an unreadable history counts
\* as clean with no findings
Step0e_scan_git_history ==
  /\ At("scan_git_history_for_ai_markers")
  /\ Invoke("scan_git_history_for_ai_markers")
  /\ \E readable \in BOOLEAN, n \in 0..MaxFindings :
       LET found == IF readable THEN n ELSE 0
       IN  /\ Returned("scan_git_history_for_ai_markers", found = 0, found)
           /\ Advisory("scan_git_history_for_ai_markers", found = 0)
  /\ Effect({}, {})
  /\ UNCHANGED <<cli, skip_stages, fs, alire, git, runs, uv, unit>>

\* Step 0f
Step0f_scan_for_code_markers == ListScanner("scan_for_code_markers")

\* Step 0g
Step0g_scan_for_long_files == ListScanner("scan_for_long_files")

\* Step 0h: validate_exception_boundaries unless --skip=exceptions; a
\* violation is followed by prompt_user_continue (release.py line 592)
Step0h_validate_exception_boundaries ==
  /\ At("validate_exception_boundaries")
  /\ IF "exceptions" \in skip_stages
     THEN /\ Goto(After("validate_exception_boundaries"))
          /\ UNCHANGED <<trace, scan, outcome>>
     ELSE /\ Invoke("validate_exception_boundaries")
          /\ \E src \in BOOLEAN, n \in 0..MaxFindings :
               LET found == IF alire.exists /\ src THEN n ELSE 0
               IN  /\ Returned("validate_exception_boundaries", found = 0, found)
                   /\ outcome' = [outcome EXCEPT !.exc = found]
                   /\ IF found = 0 THEN Goto(After("validate_exception_boundaries"))
                      ELSE Ask("validate_exception_boundaries")
  /\ Effect({}, {})
  /\ UNCHANGED <<cli, skip_stages, fs, alire, git, runs, uv, unit>>

\* Step 1: AdaReleaseAdapter.cleanup_temp_files; always returns True
Step1_cleanup_temp_files ==
  /\ At("cleanup_temp_files")
  /\ Invoke("cleanup_temp_files")
  /\ \E script \in BOOLEAN, script_ok \in BOOLEAN :
       LET viaScript == script /\ script_ok
           ran == (IF script THEN {"cleanup_temp_files.py"} ELSE {})
                  \cup (IF ~viaScript /\ fs.makefile THEN {"make clean"} ELSE {})
                  \cup (IF ~viaScript /\ alire.exists
                        THEN {"alr build --stop-after=generation"} ELSE {})
       IN  Effect({}, ran)
  /\ Returned("cleanup_temp_files", TRUE, 0)
  /\ Goto(After("cleanup_temp_files"))
  /\ UNCHANGED <<cli, skip_stages, fs, alire, outcome, git, runs, uv, unit>>

\* Step 2: AdaReleaseAdapter.update_version on the root alire.toml
Step2_update_version ==
  /\ At("update_version")
  /\ Invoke("update_version")
  /\ LET r == update_version(alire, cli.version)
     IN  /\ alire' = r.file
         /\ Effect(IF r.wrote THEN {"alire.toml"} ELSE {}, {})
         /\ Returned("update_version", r.ret, 0)
         /\ Mandatory("update_version", r.ret)
  /\ UNCHANGED <<cli, skip_stages, fs, git, runs, uv, unit>>

\* Step 3: AdaReleaseAdapter.sync_versions; a failure is only a warning
Step3_sync_versions ==
  /\ At("sync_versions")
  /\ Invoke("sync_versions")
  /\ \E script \in BOOLEAN, script_ok \in BOOLEAN, stale \in BOOLEAN, test_crate \in BOOLEAN :
       /\ Effect(IF ~script /\ stale THEN {"layer alire.toml"} ELSE {},
                 IF script THEN {"sync_versions.py"}
                 ELSE IF test_crate THEN {"alr build (test)"} ELSE {})
       /\ Returned("sync_versions", ~script \/ script_ok, 0)
  /\ Goto(After("sync_versions"))
  /\ UNCHANGED <<cli, skip_stages, fs, alire, outcome, git, runs, uv, unit>>

\* the version string generate_version_file parses must be MAJOR.MINOR.PATCH
IsSemver(v) == v \in Versions
FirstVersion(file) ==
  LET hits == {i \in DOMAIN file.lines :
                 file.lines[i].key = "version" /\ file.lines[i].val # ""}
  IN  file.lines[CHOOSE i \in hits : \A j \in hits : i <= j].val

\* Step 4: AdaReleaseAdapter.generate_version_file; a failure is only a warning
Step4_generate_version_file ==
  /\ At("generate_version_file")
  /\ Invoke("generate_version_file")
  /\ IF ~alire.exists \/ ~HasVersionField(alire) \/ ~HasNameField(alire)
     THEN Returned("generate_version_file", TRUE, 0) /\ Effect({}, {})
     ELSE IF ~IsSemver(FirstVersion(alire))
     THEN Returned("generate_version_file", FALSE, 0) /\ Effect({}, {})
     ELSE \E have \in {"no directory", "stale", "current"}, test_stale \in BOOLEAN :
            /\ Effect((IF have = "no directory" THEN {"src/version/"} ELSE {})
                        \cup (IF have # "current" THEN {"version.ads"} ELSE {})
                        \cup (IF have # "current" /\ test_stale THEN {"test_version.adb"} ELSE {}),
                      {})
            /\ Returned("generate_version_file", TRUE, 0)
  /\ Goto(After("generate_version_file"))
  /\ UNCHANGED <<cli, skip_stages, fs, alire, outcome, git, runs, uv, unit>>

\* Step 5: update_all_markdown_files; replace_markdown_header and
\* add_markdown_header return before write_text when dry_run is set
Step5_update_all_markdown_files ==
  /\ At("update_all_markdown_files")
  /\ Invoke("update_all_markdown_files")
  /\ \E changed \in BOOLEAN :
       Effect(IF changed /\ ~cli.dry_run THEN {"markdown headers"} ELSE {}, {})
  /\ Goto(After("update_all_markdown_files"))
  /\ UNCHANGED <<scan, cli, skip_stages, fs, alire, outcome, git, runs, uv, unit>>

\* Step 5a: validate_spark_section; not valid prompts
Step5a_validate_spark_section ==
  /\ At("validate_spark_section")
  /\ Invoke("validate_spark_section")
  /\ LET r == validate_spark_section(fs.readme)
     IN  /\ Returned("validate_spark_section", r.ok, r.n)
         /\ Advisory("validate_spark_section", r.ok)
  /\ Effect({}, {})
  /\ UNCHANGED <<cli, skip_stages, fs, alire, git, runs, uv, unit>>

\* Step 6 checkpoint: prompt before CHANGELOG.md is rewritten, when it
\* exists and has no heading for the version yet
Step6_changelog_checkpoint ==
  /\ At("changelog_checkpoint")
  /\ IF fs.changelog.exists /\ fs.changelog.version = "none"
     THEN Ask("changelog_checkpoint")
     ELSE Goto(After("changelog_checkpoint"))
  /\ UNCHANGED <<trace, scan, cli, skip_stages, fs, alire, writes, cmds, touched, outcome, git, runs, uv, unit>>

\* update_changelog (release.py) on the facts its regular expressions read:
\* fs.changelog = [exists, version, unreleased], version the state of the
\* section of config.version ("none", "placeholder", "meaningful").
\* initial is config.is_initial_release, bullets whether some ### section
\* holds a bullet, moved what the moved [Unreleased] text amounts to.
\* Returns [ret, changelog, wrote].
update_changelog(cl, dry_run, initial, bullets, moved) ==
  IF cl.exists /\ cl.version = "meaningful"
  THEN [ret |-> TRUE, changelog |-> cl, wrote |-> {}]
  ELSE IF initial
  THEN IF cl.exists /\ bullets
       THEN [ret |-> TRUE, changelog |-> cl, wrote |-> {}]
       ELSE IF dry_run
       THEN [ret |-> TRUE, changelog |-> cl, wrote |-> {}]
       ELSE [ret |-> TRUE,
             changelog |-> [exists |-> TRUE, version |-> "meaningful", unreleased |-> TRUE],
             wrote |-> {"CHANGELOG.md"} \cup (IF cl.exists THEN {"CHANGELOG.md.backup"} ELSE {})]
  ELSE IF ~cl.exists
  THEN [ret |-> FALSE, changelog |-> cl, wrote |-> {}]
  ELSE IF cl.version # "none"
  THEN [ret |-> TRUE, changelog |-> cl, wrote |-> {}]
  ELSE IF ~cl.unreleased
  THEN [ret |-> FALSE, changelog |-> cl, wrote |-> {}]
  ELSE IF dry_run
  THEN [ret |-> TRUE, changelog |-> cl, wrote |-> {}]
  ELSE [ret |-> TRUE,
        changelog |-> [cl EXCEPT !.version = moved],
        wrote |-> {"CHANGELOG.md"}]

\* Step 6: update_changelog
Step6_update_changelog ==
  /\ At("update_changelog")
  /\ Invoke("update_changelog")
  /\ \E initial \in BOOLEAN, bullets \in BOOLEAN, moved \in {"placeholder", "meaningful"} :
       LET r == update_changelog(fs.changelog, cli.dry_run, initial, bullets, moved)
       IN  /\ fs' = [fs EXCEPT !.changelog = r.changelog]
           /\ Effect(r.wrote, {})
           /\ Returned("update_changelog", r.ret, 0)
           /\ Mandatory("update_changelog", r.ret)
  /\ UNCHANGED <<cli, skip_stages, alire, git, runs, uv, unit>>

\* AdaReleaseAdapter.run_build: make build-release, then alr build --release
\* as the fallback; [ret, ran]
run_build(makefile, make_ok, alr_ok) ==
  IF makefile /\ make_ok
  THEN [ret |-> TRUE, ran |-> {"make clean", "make build-release"}]
  ELSE [ret |-> alr_ok,
        ran |-> (IF makefile THEN {"make clean", "make build-release"} ELSE {})
                \cup {"alr build --release"}]

\* Step 7: run_build
Step7_run_build ==
  /\ At("run_build")
  /\ Invoke("run_build")
  /\ \E make_ok \in BOOLEAN, alr_ok \in BOOLEAN :
       LET r == run_build(fs.makefile, make_ok, alr_ok)
       IN  /\ Effect({}, r.ran)
           /\ Returned("run_build", r.ret, 0)
           /\ IF r.ret
              THEN Goto(After("run_build")) /\ outcome' = [outcome EXCEPT !.build = "ok"]
              ELSE Finish(FALSE)
                   /\ outcome' = [outcome EXCEPT !.build = "fail", !.failed = "run_build"]
  /\ UNCHANGED <<cli, skip_stages, fs, alire, git, runs, uv, unit>>

\* AdaReleaseAdapter.run_tests: make test-all, then make test; when both
\* fail it prints "No test target found" and returns True (ada.py line 542)
run_tests(makefile, test_all_ok, test_ok) ==
  IF makefile /\ test_all_ok THEN TRUE
  ELSE IF makefile /\ test_ok THEN TRUE
  ELSE TRUE

\* what the test commands answered: "none" when none was run
TestsExit(makefile, test_all_ok, test_ok) ==
  IF ~makefile THEN "none" ELSE IF test_all_ok \/ test_ok THEN "ok" ELSE "fail"

\* Step 8: run_tests; counted: _parse_test_counts found a total above 0
Step8_run_tests ==
  /\ At("run_tests")
  /\ Invoke("run_tests")
  /\ \E test_all_ok \in BOOLEAN, test_ok \in BOOLEAN, counted \in BOOLEAN :
       LET ret == run_tests(fs.makefile, test_all_ok, test_ok)
           exit == TestsExit(fs.makefile, test_all_ok, test_ok)
       IN  /\ Returned("run_tests", ret, 0)
           /\ IF ret
              THEN Goto(After("run_tests"))
                   /\ outcome' = [outcome EXCEPT !.tests = exit,
                                                 !.counted = counted /\ exit = "ok"]
              ELSE Finish(FALSE)
                   /\ outcome' = [outcome EXCEPT !.tests = exit, !.failed = "run_tests"]
  /\ Effect({}, {})
  /\ UNCHANGED <<cli, skip_stages, fs, alire, git, runs, uv, unit>>

\* Step 8a: AdaReleaseAdapter.update_test_counts_in_docs; every write_text
\* in it is under "if not config.dry_run"
Step8a_update_test_counts_in_docs ==
  /\ At("update_test_counts_in_docs")
  /\ Invoke("update_test_counts_in_docs")
  /\ \E readme_line \in BOOLEAN, changelog_line \in BOOLEAN :
       Effect(IF ~outcome.counted \/ cli.dry_run THEN {}
              ELSE (IF readme_line THEN {"README.md"} ELSE {})
                   \cup (IF fs.changelog.exists /\ changelog_line THEN {"CHANGELOG.md"} ELSE {}),
              {})
  /\ Goto(After("update_test_counts_in_docs"))
  /\ UNCHANGED <<scan, cli, skip_stages, fs, alire, outcome, git, runs, uv, unit>>

\* the manual commit checkpoint (release.py lines 690-707)
Commit_checkpoint ==
  /\ At("commit_checkpoint")
  /\ Ask("commit_checkpoint")
  /\ UNCHANGED <<trace, scan, cli, skip_stages, fs, alire, writes, cmds, touched, outcome, git, runs, uv, unit>>

\* AdaReleaseAdapter.run_spark_check
run_spark_check(gpr, makefile, check_ok) ==
  IF ~gpr THEN TRUE ELSE IF makefile THEN check_ok ELSE TRUE

\* Step 9: run_spark_check unless --skip=spark
Step9_run_spark_check ==
  /\ At("run_spark_check")
  /\ IF "spark" \in skip_stages
     THEN /\ Goto(After("run_spark_check"))
          /\ UNCHANGED <<trace, scan, outcome>>
     ELSE /\ Invoke("run_spark_check")
          /\ \E gpr \in BOOLEAN, check_ok \in BOOLEAN :
               LET ok == run_spark_check(gpr, fs.makefile, check_ok)
               IN  /\ Returned("run_spark_check", ok, 0)
                   /\ Mandatory("run_spark_check", ok)
  /\ Effect({}, {})
  /\ UNCHANGED <<cli, skip_stages, fs, alire, git, runs, uv, unit>>

\* run_windows_validation (release.py): where it stops; [ret, ran]
WindowsRuns == {"no gh", "no HEAD", "not triggered", "no run", "failed", "passed"}
run_windows_validation(dry_run, how) ==
  IF how \in {"no gh", "no HEAD"} THEN [ret |-> FALSE, ran |-> {}]
  ELSE IF dry_run THEN [ret |-> TRUE, ran |-> {}]
  ELSE [ret |-> how = "passed", ran |-> {"gh workflow run"}]

\* Step 10: run_windows_validation when the workflow file exists, unless
\* --skip=windows
Step10_run_windows_validation ==
  /\ At("run_windows_validation")
  /\ IF fs.workflow /\ "windows" \notin skip_stages
     THEN /\ Invoke("run_windows_validation")
          /\ \E how \in WindowsRuns :
               LET r == run_windows_validation(cli.dry_run, how)
               IN  /\ Effect({}, r.ran)
                   /\ Returned("run_windows_validation", r.ret, 0)
                   /\ Mandatory("run_windows_validation", r.ret)
     ELSE /\ Goto(After("run_windows_validation"))
          /\ Effect({}, {})
          /\ UNCHANGED <<trace, scan, outcome>>
  /\ UNCHANGED <<cli, skip_stages, fs, alire, git, runs, uv, unit>>

\* Step 11: verify_submodules_current
Step11_verify_submodules_current ==
  /\ At("verify_submodules_current")
  /\ Invoke("verify_submodules_current")
  /\ \E gitmodules \in BOOLEAN, status_ok \in BOOLEAN, n \in 0..MaxFindings :
       LET issues == IF ~gitmodules THEN 0 ELSE IF ~status_ok THEN 1 ELSE n
       IN  /\ Returned("verify_submodules_current", issues = 0, issues)
           /\ Advisory("verify_submodules_current", issues = 0)
  /\ Effect({}, {})
  /\ UNCHANGED <<cli, skip_stages, fs, alire, git, runs, uv, unit>>

\* Step 12: the adapter has no reset_config_to_development, so the config
\* directory is restored with git checkout; then prepare_release returns True
Step12_reset_config ==
  /\ At("reset_config")
  /\ Invoke("reset_config")
  /\ Effect({}, {"git checkout config/"})
  /\ Finish(TRUE)
  /\ UNCHANGED <<scan, cli, skip_stages, fs, alire, outcome, git, runs, uv, unit>>

\* prompt_user_continue(message), allow_skip False: ENTER continues, q
\* aborts, anything else asks again
Answer ==
  /\ prompt # "none"
  /\ \E r \in Responses :
       /\ answer' = [stage |-> prompt, r |-> r]
       /\ CASE r = ""  -> pc' = After(prompt) /\ prompt' = "none" /\ UNCHANGED <<result, exit_code>>
            [] r = "q" -> /\ result' = "False" /\ exit_code' = 1
                          /\ pc' = "done" /\ prompt' = "none"
            [] OTHER   -> UNCHANGED <<pc, prompt, result, exit_code>>
  /\ UNCHANGED <<trace, scan, cli, skip_stages, fs, alire, writes, cmds, touched, outcome, git, runs, uv, unit>>

\* a handler that reports the interruption and returns 0
Interrupt_returns_0 ==
  /\ pc \notin {"main", "done"}
  /\ result = "running"
  /\ \E e \in {"KeyboardInterrupt", "Exception"} : result' = e
  /\ exit_code' = 0
  /\ pc' = "done"
  /\ prompt' = "none"
  /\ answer' = NoAnswer
  /\ UNCHANGED <<trace, scan, cli, skip_stages, fs, alire, writes, cmds, touched, outcome,
                 git, runs, uv, unit>>

\* main, lines 1019-1026: a KeyboardInterrupt or any other exception that
\* leaves prepare_release or create_release, a prompt included, ends main
\* with return 1
Interrupt ==
  /\ pc \notin {"main", "done"}
  /\ result = "running"
  /\ \E e \in {"KeyboardInterrupt", "Exception"} : result' = e
  /\ exit_code' = 1
  /\ pc' = "done"
  /\ prompt' = "none"
  /\ answer' = NoAnswer
  /\ UNCHANGED <<trace, scan, cli, skip_stages, fs, alire, writes, cmds, touched, outcome,
                 git, runs, uv, unit>>

\* ------------------------------------------------ create_release (release.py)
\* git = [tree, tag, created, remote, release, spark_notes, had_tag, pushed, ok, prove]
\*   tree         what git status --porcelain answers: "clean", "dirty", "unreadable"
\*   tag          the tag v<version> exists in the repository
\*   created      how many times git tag -a created a tag, over all runs
\*   remote       what origin holds of {"main", "tag"}, over all runs
\*   release      the GitHub release: "none", "created", "edited"
\*   spark_notes  the release notes carry the SPARK section
\*   had_tag      this run: git tag -l found the tag
\*   pushed       this run: the git push commands that succeeded
\*   ok           this run: the adapter operations that returned success
\*   prove        this run: how make spark-prove ended, "none" when it was not run
ReleaseOk(op, b) == git' = [git EXCEPT !.ok = IF b THEN @ \cup {op} ELSE @]

\* BaseReleaseAdapter.verify_clean_working_tree
verify_clean_working_tree(tree) == tree = "clean"

\* create_release, lines 800-806
Release_verify_clean_working_tree ==
  /\ At("verify_clean_working_tree")
  /\ Invoke("verify_clean_working_tree")
  /\ LET ok == verify_clean_working_tree(git.tree)
     IN  /\ Returned("verify_clean_working_tree", ok, 0)
         /\ ReleaseOk("verify_clean_working_tree", ok)
         /\ IF ok THEN Goto("create_git_tag") ELSE Finish(FALSE)
  /\ Effect({}, {})
  /\ UNCHANGED <<cli, skip_stages, fs, alire, outcome, runs, uv, unit>>

\* create_git_tag without the git tag -l check: git tag -a refuses a tag
\* that exists
create_git_tag_unchecked(tag, cmd_ok) ==
  [ret |-> cmd_ok /\ ~tag, ran |-> {"git tag -a"}, tag |-> tag \/ cmd_ok]

\* BaseReleaseAdapter.create_git_tag: [ret, ran, tag]; cmd_ok is the exit
\* status of git tag -a
create_git_tag(tag, cmd_ok) ==
  IF tag THEN [ret |-> TRUE, ran |-> {}, tag |-> TRUE]
  ELSE [ret |-> cmd_ok, ran |-> {"git tag -a"}, tag |-> cmd_ok]

\* create_release, lines 808-811
Release_create_git_tag ==
  /\ At("create_git_tag")
  /\ Invoke("create_git_tag")
  /\ \E cmd_ok \in BOOLEAN :
       LET r == create_git_tag(git.tag, cmd_ok)
       IN  /\ Effect({}, r.ran)
           /\ Returned("create_git_tag", r.ret, 0)
           /\ git' = [git EXCEPT !.had_tag = git.tag,
                                 !.tag = r.tag,
                                 !.created = IF r.tag /\ ~git.tag THEN @ + 1 ELSE @,
                                 !.ok = IF r.ret THEN @ \cup {"create_git_tag"} ELSE @]
           /\ IF r.ret THEN Goto("push_changes") ELSE Finish(FALSE)
  /\ UNCHANGED <<cli, skip_stages, fs, alire, outcome, runs, uv, unit>>

\* push_changes that runs both commands and reports only the second
push_changes_last_only(main_ok, tag_ok) ==
  [ret |-> tag_ok,
   ran |-> {"git push origin main", "git push origin tag"},
   pushed |-> (IF main_ok THEN {"main"} ELSE {}) \cup (IF tag_ok THEN {"tag"} ELSE {})]

\* BaseReleaseAdapter.push_changes: git push origin main, then git push
\* origin <tag>; the first failure returns False; [ret, ran, pushed]
push_changes(main_ok, tag_ok) ==
  IF ~main_ok THEN [ret |-> FALSE, ran |-> {"git push origin main"}, pushed |-> {}]
  ELSE [ret |-> tag_ok,
        ran |-> {"git push origin main", "git push origin tag"},
        pushed |-> IF tag_ok THEN {"main", "tag"} ELSE {"main"}]

\* create_release, lines 813-816
Release_push_changes ==
  /\ At("push_changes")
  /\ Invoke("push_changes")
  /\ \E main_ok \in BOOLEAN, tag_ok \in BOOLEAN :
       LET r == push_changes(main_ok, tag_ok)
       IN  /\ Effect({}, r.ran)
           /\ Returned("push_changes", r.ret, 0)
           /\ git' = [git EXCEPT !.pushed = r.pushed,
                                 !.remote = @ \cup r.pushed,
                                 !.ok = IF r.ret THEN @ \cup {"push_changes"} ELSE @]
           /\ IF r.ret THEN Goto("create_github_release") ELSE Finish(FALSE)
  /\ UNCHANGED <<cli, skip_stages, fs, alire, outcome, runs, uv, unit>>

\* BaseReleaseAdapter.create_github_release: gh release view decides between
\* gh release edit and gh release create; [ret, ran, release]
create_github_release(release, view_ok, cmd_ok) ==
  IF release # "none" /\ view_ok
  THEN [ret |-> cmd_ok, ran |-> {"gh release edit"},
        release |-> IF cmd_ok THEN "edited" ELSE release]
  ELSE LET made == cmd_ok /\ release = "none"
       IN  [ret |-> made, ran |-> {"gh release create"},
            release |-> IF made THEN "created" ELSE release]

\* create_release, lines 818-821
Release_create_github_release ==
  /\ At("create_github_release")
  /\ Invoke("create_github_release")
  /\ \E view_ok \in BOOLEAN, cmd_ok \in BOOLEAN :
       LET r == create_github_release(git.release, view_ok, cmd_ok)
       IN  /\ Effect({}, r.ran)
           /\ Returned("create_github_release", r.ret, 0)
           /\ git' = [git EXCEPT !.release = r.release,
                                 !.ok = IF r.ret THEN @ \cup {"create_github_release"} ELSE @]
           /\ IF r.ret THEN Goto("run_spark_prove") ELSE Finish(FALSE)
  /\ UNCHANGED <<cli, skip_stages, fs, alire, outcome, runs, uv, unit>>

\* AdaReleaseAdapter.run_spark_prove: [success, summary, ran]; summary is
\* whether the returned text is non-empty
ProveRuns == {"passed", "medium only", "errors", "timeout", "exception"}

\* a prove whose timeout counts as success
run_spark_prove_timeout_succeeds(gpr, makefile, how) ==
  [success |-> ~gpr \/ ~makefile \/ how \in {"passed", "medium only", "timeout"},
   summary |-> TRUE,
   ran |-> IF gpr /\ makefile THEN {"make spark-prove"} ELSE {}]

run_spark_prove(gpr, makefile, how) ==
  IF ~gpr THEN [success |-> TRUE, summary |-> TRUE, ran |-> {}]
  ELSE IF ~makefile THEN [success |-> TRUE, summary |-> TRUE, ran |-> {}]
  ELSE [success |-> how \in {"passed", "medium only"},
        summary |-> how # "exception",
        ran |-> {"make spark-prove"}]

\* AdaReleaseAdapter.update_github_release_with_spark: whether the notes
\* now carry the SPARK section
update_github_release_with_spark(view_ok, edit_ok) == view_ok /\ edit_ok

\* create_release, lines 838-861: SPARK prove unless --skip=spark; its
\* result does not change what create_release returns
Release_run_spark_prove ==
  /\ At("run_spark_prove")
  /\ IF "spark" \in skip_stages
     THEN /\ Effect({}, {})
          /\ UNCHANGED <<trace, scan, git>>
     ELSE /\ Invoke("run_spark_prove")
          /\ \E gpr \in BOOLEAN, how \in ProveRuns, view_ok \in BOOLEAN, edit_ok \in BOOLEAN :
               LET r == run_spark_prove(gpr, fs.makefile, how)
                   edit == r.success /\ r.summary
                   done == edit /\ update_github_release_with_spark(view_ok, edit_ok)
               IN  /\ Effect(IF r.ran # {} /\ how \notin {"timeout", "exception"}
                             THEN {"spark_prove.log"} ELSE {},
                             r.ran \cup (IF edit /\ view_ok THEN {"gh release edit --notes"} ELSE {})
                                   \cup (IF done /\ r.ran # {} THEN {"gh release upload"} ELSE {}))
                   /\ Returned("run_spark_prove", r.success, 0)
                   /\ git' = [git EXCEPT !.spark_notes = @ \/ done,
                                         !.prove = IF r.ran = {} THEN "none" ELSE how,
                                         !.ok = IF r.success THEN @ \cup {"run_spark_prove"} ELSE @]
  /\ Finish(TRUE)
  /\ UNCHANGED <<cli, skip_stages, fs, alire, outcome, runs, uv, unit>>

\* the operator runs the release command again, on whatever the working
\* tree is by then
Rerun ==
  /\ pc = "done"
  /\ cli.action = "release"
  /\ runs < MaxRuns
  /\ runs' = runs + 1
  /\ pc' = "main"
  /\ result' = "running"
  /\ exit_code' = -1
  /\ trace' = <<>>
  /\ scan' = [stage |-> "none", ok |-> TRUE, n |-> 0, passed |-> {}]
  /\ writes' = {}
  /\ cmds' = {}
  /\ touched' = FALSE
  /\ skip_stages' = {}
  /\ \E tree \in {"clean", "dirty", "unreadable"} :
       git' = [git EXCEPT !.tree = tree, !.had_tag = FALSE, !.pushed = {}, !.ok = {},
                          !.prove = "none"]
  /\ UNCHANGED <<prompt, answer, cli, fs, alire, outcome, uv, unit>>

\* ------------------------------------------------ the prepare command
Top(v) == [indent |-> FALSE, key |-> "version", val |-> v]
Indented(v) == [indent |-> TRUE, key |-> "version", val |-> v]
Name(v) == [indent |-> FALSE, key |-> "name", val |-> v]

SkipArgs ==
  { <<>>, <<"all">>, <<"ALL">>, <<"spark">>, <<"windows">>, <<"exceptions">>,
    <<"Spark", " windows">>, <<"exceptions", "spark">>, <<"windows", "exceptions">>,
    <<"windows", "spark", "exceptions">>, <<"bogus">>, <<"all", "spark">>, <<" all">> }

GoodAi == Section("ai", RequiredPhrases)
PipelineReadmes ==
  { NoReadme,
    Readme(<<Section("other", {})>>),
    Readme(<<Section("contributing", {}), GoodAi, Section("spark", {"CHANGELOG"}), Section("license", {})>>),
    Readme(<<Section("contributing", {}), Section("ai", RequiredPhrases \ {"tool"}),
             Section("spark", {"metrics"}), Section("license", {})>>),
    Readme(<<GoodAi, Section("contributing", {}), Section("license", {})>>),
    Readme(<<Section("contributing", {}), Section("license", {}), GoodAi>>),
    Readme(<<GoodAi, Section("spark", {})>>),
    Readme(<<Section("contributing", {}), GoodAi, Section("license", {})>>) }

Changelog(e, v, u) == [exists |-> e, version |-> v, unreleased |-> u]
PipelineChangelogs ==
  { Changelog(FALSE, "none", FALSE), Changelog(TRUE, "none", TRUE),
    Changelog(TRUE, "none", FALSE), Changelog(TRUE, "placeholder", TRUE),
    Changelog(TRUE, "meaningful", TRUE) }

PipelineAlires ==
  { NoFile, File(<<Name("0.1.0")>>), File(<<Name("0.1.0"), Top("0.1.0")>>),
    File(<<Indented("0.1.0")>>), File(<<Top("0.2.0"), Name("0.1.0")>>) }

NoScan == [stage |-> "none", ok |-> TRUE, n |-> 0, passed |-> {}]
NoOutcome == [failed |-> "none", build |-> "none", tests |-> "none", counted |-> FALSE, exc |-> 0]
NoGit == [tree |-> "clean", tag |-> FALSE, created |-> 0, remote |-> {},
          release |-> "none", spark_notes |-> FALSE, had_tag |-> FALSE,
          pushed |-> {}, ok |-> {}, prove |-> "none"]
NoUv == [orig |-> NoFile, before |-> NoFile, ret |-> FALSE, calls |-> 0, wrote |-> FALSE]
NoUnit == [kind |-> "none"]

\* The projects prepare is run on: one project in good order, and every
\* project that differs from it in the --skip argument and README.md, in
\* CHANGELOG.md or in alire.toml.
BaseProject ==
  [ skip |-> <<>>,
    readme |-> Readme(<<Section("contributing", {}), GoodAi,
                        Section("spark", {"CHANGELOG"}), Section("license", {})>>),
    changelog |-> Changelog(TRUE, "none", TRUE),
    alire |-> File(<<Name("0.1.0"), Top("0.1.0")>>) ]
Projects ==
  {[BaseProject EXCEPT !.skip = x, !.readme = y] : x \in SkipArgs, y \in PipelineReadmes}
    \cup {[BaseProject EXCEPT !.changelog = x] : x \in PipelineChangelogs}
    \cup {[BaseProject EXCEPT !.alire = x] : x \in PipelineAlires}

InitPrepare ==
  /\ pc = "main"
  /\ prompt = "none"
  /\ answer = NoAnswer
  /\ result = "running"
  /\ exit_code = -1
  /\ trace = <<>>
  /\ scan = NoScan
  /\ skip_stages = {}
  /\ \E p \in Projects, dry_run \in BOOLEAN, makefile \in BOOLEAN, workflow \in BOOLEAN :
       /\ cli = [action |-> "prepare", skip |-> p.skip, version |-> "0.2.0", dry_run |-> dry_run, root |-> TRUE]
       /\ fs = [makefile |-> makefile, readme |-> p.readme,
                changelog |-> p.changelog, workflow |-> workflow]
       /\ alire = p.alire
  /\ writes = {}
  /\ cmds = {}
  /\ touched = FALSE
  /\ outcome = NoOutcome
  /\ git = NoGit
  /\ runs = 1
  /\ uv = NoUv
  /\ unit = NoUnit


\* ------------------------------------------------ update_version on its own
\* config.version is applied to one alire.toml up to MaxRuns times in a row.
\* uv keeps the file before the first call (orig), the file before the last
\* call (before), and what the last call returned and whether it wrote.
Call_update_version ==
  /\ pc = "update_version"
  /\ uv.calls < MaxRuns
  /\ LET r == update_version(alire, cli.version)
     IN  /\ alire' = r.file
         /\ uv' = [orig |-> IF uv.calls = 0 THEN alire ELSE uv.orig,
                   before |-> alire,
                   ret |-> r.ret,
                   calls |-> uv.calls + 1,
                   wrote |-> r.wrote]
  /\ UNCHANGED <<pc, prompt, answer, result, exit_code, trace, scan, cli, skip_stages, fs,
                 writes, cmds, touched, outcome, git, runs, unit>>

AlireFiles == {NoFile} \cup {File(ls) : ls \in SeqsUpTo(Line, MaxLines)}

InitVersion ==
  /\ pc = "update_version"
  /\ prompt = "none"
  /\ answer = NoAnswer
  /\ result = "running"
  /\ exit_code = -1
  /\ trace = <<>>
  /\ scan = NoScan
  /\ skip_stages = {}
  /\ \E v \in Versions :
       cli = [action |-> "prepare", skip |-> <<>>, version |-> v, dry_run |-> FALSE, root |-> TRUE]
  /\ fs = [makefile |-> TRUE, readme |-> BaseProject.readme,
           changelog |-> BaseProject.changelog, workflow |-> FALSE]
  /\ alire \in AlireFiles
  /\ writes = {}
  /\ cmds = {}
  /\ touched = FALSE
  /\ outcome = NoOutcome
  /\ git = NoGit
  /\ runs = 1
  /\ uv = NoUv
  /\ unit = NoUnit

NextVersion == Call_update_version

SpecVersion == InitVersion /\ [][NextVersion]_vars

\* ------------------------------------------------ the release command
\* The repository may already hold the tag and the release of an earlier,
\* interrupted run.
InitRelease ==
  /\ pc = "main"
  /\ prompt = "none"
  /\ answer = NoAnswer
  /\ result = "running"
  /\ exit_code = -1
  /\ trace = <<>>
  /\ scan = NoScan
  /\ skip_stages = {}
  /\ \E skip \in SkipArgs, makefile \in BOOLEAN :
       /\ cli = [action |-> "release", skip |-> skip, version |-> "0.2.0", dry_run |-> FALSE, root |-> TRUE]
       /\ fs = [makefile |-> makefile, readme |-> BaseProject.readme,
                changelog |-> Changelog(TRUE, "meaningful", TRUE), workflow |-> FALSE]
  /\ alire = File(<<Name("0.1.0"), Top("0.2.0")>>)
  /\ writes = {}
  /\ cmds = {}
  /\ touched = FALSE
  /\ outcome = NoOutcome
  /\ \E tree \in {"clean", "dirty", "unreadable"}, tag \in BOOLEAN,
        release \in {"none", "created"} :
       git = [NoGit EXCEPT !.tree = tree, !.tag = tag, !.release = release,
                           !.remote = IF release = "created" THEN {"main", "tag"}
                                      ELSE {}]
  /\ runs = 1
  /\ uv = NoUv
  /\ unit = NoUnit

\* ------------------------------------------------ the command line tool
\* command lines that name no pipeline, or none that main accepts
OtherCommandLines ==
  { [action |-> a, skip |-> s, version |-> v, dry_run |-> FALSE, root |-> root] :
      a \in ActionChoices \cup {"deploy"}, s \in {<<>>, <<"bogus">>},
      v \in VersionArgs, root \in BOOLEAN }
    \ { [action |-> a, skip |-> <<>>, version |-> "0.2.0", dry_run |-> FALSE, root |-> TRUE] :
          a \in {"prepare", "release"} }

InitOther ==
  /\ pc = "main"
  /\ prompt = "none"
  /\ answer = NoAnswer
  /\ result = "running"
  /\ exit_code = -1
  /\ trace = <<>>
  /\ scan = NoScan
  /\ skip_stages = {}
  /\ cli \in OtherCommandLines
  /\ fs = [makefile |-> TRUE, readme |-> BaseProject.readme,
           changelog |-> BaseProject.changelog, workflow |-> FALSE]
  /\ alire = BaseProject.alire
  /\ writes = {}
  /\ cmds = {}
  /\ touched = FALSE
  /\ outcome = NoOutcome
  /\ git = NoGit
  /\ runs = 1
  /\ uv = NoUv
  /\ unit = NoUnit

Init == InitPrepare \/ InitRelease \/ InitOther

Next ==
  \/ Main
  \/ Step0a_validate_makefile
  \/ Step0b_validate_links
  \/ Step0c_validate_documentation
  \/ Step0d_validate_ai_assistance_section
  \/ Step0e_scan_git_history
  \/ Step0f_scan_for_code_markers
  \/ Step0g_scan_for_long_files
  \/ Step0h_validate_exception_boundaries
  \/ Step1_cleanup_temp_files
  \/ Step2_update_version
  \/ Step3_sync_versions
  \/ Step4_generate_version_file
  \/ Step5_update_all_markdown_files
  \/ Step5a_validate_spark_section
  \/ Step6_changelog_checkpoint
  \/ Step6_update_changelog
  \/ Step7_run_build
  \/ Step8_run_tests
  \/ Step8a_update_test_counts_in_docs
  \/ Commit_checkpoint
  \/ Step9_run_spark_check
  \/ Step10_run_windows_validation
  \/ Step11_verify_submodules_current
  \/ Step12_reset_config
  \/ Answer
  \/ Interrupt
  \/ Release_verify_clean_working_tree
  \/ Release_create_git_tag
  \/ Release_push_changes
  \/ Release_create_github_release
  \/ Release_run_spark_prove
  \/ Rerun

Spec == Init /\ [][Next]_vars

\* ------------------------------------------------ CHANGELOG.md as text
\* CHANGELOG.md is read as its "## " sections in order; every heading is
\* followed by a blank line and every section ends with one, as in the file the
\* tool itself writes.  A section is [h, dated, body]: h is "Unreleased", "V"
\* (config.version) or "Old" (an earlier version), dated tells "## [V] - date"
\* from the bare "## [V]", body holds the lines below the heading.
MaxBody == 2           \* longest section body (in lines) that is enumerated

LongLine == "a paragraph of more than fifty characters with no bullet"
UnreleasedLines == {"", "### Added", "- fix", "- C:\\temp", "- \\d+"}
VersionSectionLines == {"", "- fix", "TBD", LongLine}

Sec(h, dated, body) == [h |-> h, dated |-> dated, body |-> body]
NoChangelog == [exists |-> FALSE, doc |-> <<>>, backup |-> FALSE]
ChangelogFile(doc) == [exists |-> TRUE, doc |-> doc, backup |-> FALSE]

IsBullet(l) == l \in {"- fix", "- C:\\temp", "- C:<TAB>emp", "- \\d+", "- old",
                      "- Initial implementation"}
IsSubheading(l) == l \in {"### Added", "### Changed", "### Removed", "### Fixed"}

\* str.strip() on a block of lines: the blank lines at both ends go
RECURSIVE strip(_)
strip(ls) ==
  IF ls = <<>> THEN <<>>
  ELSE IF Head(ls) = "" THEN strip(Tail(ls))
  ELSE IF ls[Len(ls)] = "" THEN strip(SubSeq(ls, 1, Len(ls) - 1))
  ELSE ls

\* the lines of the file from section i on, every heading written "## "
RECURSIVE LinesFrom(_, _)
LinesFrom(doc, i) ==
  IF i > Len(doc) THEN <<>>
  ELSE <<"## ">> \o doc[i].body \o LinesFrom(doc, i + 1)

\* the lines before the next "## " heading: (.*?)(?=\n## |\Z)
RECURSIVE UpToHeading(_)
UpToHeading(ls) ==
  IF ls = <<>> \/ Head(ls) = "## " THEN <<>>
  ELSE <<Head(ls)>> \o UpToHeading(Tail(ls))

RECURSIVE SkipBlank(_)
SkipBlank(ls) == IF ls # <<>> /\ Head(ls) = "" THEN SkipBlank(Tail(ls)) ELSE ls

\* index of the first section headed h, 0 when there is none
FirstSec(doc, h) ==
  IF \E i \in DOMAIN doc : doc[i].h = h
  THEN CHOOSE i \in DOMAIN doc : doc[i].h = h /\ \A j \in 1..(i - 1) : doc[j].h # h
  ELSE 0

\* group(1) of  ## \[V\]\s*-?\s*[^\n]*\n(.*?)(?=\n## |\Z)  at section i, stripped.
\* After a dated heading the pattern stops at the end of the heading line;
\* after a bare one \s* runs over the blank lines and [^\n]* takes the next
\* line that is not blank.
version_content(doc, i) ==
  LET rest == doc[i].body \o LinesFrom(doc, i + 1)
      left == SkipBlank(rest)
  IN  IF doc[i].dated THEN strip(UpToHeading(rest))
      ELSE IF left = <<>> THEN <<>>
      ELSE strip(UpToHeading(Tail(left)))

RECURSIVE Chars(_)
Chars(ls) ==
  IF ls = <<>> THEN 0
  ELSE Len(Head(ls)) + (IF Len(ls) > 1 THEN 1 ELSE 0) + Chars(Tail(ls))

MeaningfulMinChars == 50

has_meaningful_content(content) ==
  LET has_bullets == \E i \in DOMAIN content : IsBullet(content[i])
      is_placeholder == \E i \in DOMAIN content : content[i] \in {"TBD", "_Initial release_"}
  IN  has_bullets \/ (~is_placeholder /\ Chars(content) > MeaningfulMinChars)

\* re.search(r'###\s+\w+.*\n\s*-\s+\S', content, re.DOTALL)
has_content(doc) ==
  LET ls == LinesFrom(doc, 1)
  IN  \E i, j \in DOMAIN ls : i < j /\ IsSubheading(ls[i]) /\ IsBullet(ls[j])

\* create_initial_changelog
create_initial_changelog ==
  << Sec("Unreleased", FALSE, <<"### Changed", "### Added", "### Removed", "### Fixed", "---">>),
     Sec("V", TRUE, <<"_Initial release_", "### Added", "- Initial implementation", "---">>),
     Sec("License", FALSE, <<"License & Copyright">>) >>

\* re.sub reads its replacement as a template: \t becomes a tab, \d is a bad
\* escape and raises re.error
BadEscape(l) == l = "- \\d+"
Expand(l) == IF l = "- C:\\temp" THEN "- C:<TAB>emp" ELSE l

\* the text that replaces the [Unreleased] section
UnreleasedSubheadings == <<"### Changed", "### Added", "### Removed", "### Fixed">>
release_section(unreleased_content) ==
  << Sec("Unreleased", FALSE, UnreleasedSubheadings \o <<"---">>),
     Sec("V", TRUE, [i \in DOMAIN unreleased_content |-> Expand(unreleased_content[i])]) >>

\* update_changelog on the text: [ret, file, wrote]
update_changelog_text(f, is_initial_release, dry_run) ==
  LET keep(ret) == [ret |-> ret, file |-> f, wrote |-> FALSE]
      v == FirstSec(f.doc, "V")
      u == FirstSec(f.doc, "Unreleased")
      unreleased_content == strip(f.doc[u].body)
  IN  IF f.exists /\ v # 0 /\ has_meaningful_content(version_content(f.doc, v))
      THEN keep(TRUE)
      ELSE IF is_initial_release
      THEN IF f.exists /\ has_content(f.doc) THEN keep(TRUE)
           ELSE IF dry_run THEN keep(TRUE)
           ELSE [ret |-> TRUE,
                 file |-> [exists |-> TRUE, doc |-> create_initial_changelog,
                           backup |-> f.backup \/ f.exists],
                 wrote |-> TRUE]
      ELSE IF ~f.exists THEN keep(FALSE)
      ELSE IF v # 0 THEN keep(TRUE)
      ELSE IF u = 0 THEN keep(FALSE)
      ELSE IF \E i \in DOMAIN unreleased_content : BadEscape(unreleased_content[i])
      THEN keep(FALSE)
      ELSE IF dry_run THEN keep(TRUE)
      ELSE [ret |-> TRUE,
            file |-> [f EXCEPT !.doc = SubSeq(f.doc, 1, u - 1)
                                        \o release_section(unreleased_content)
                                        \o SubSeq(f.doc, u + 1, Len(f.doc))],
            wrote |-> TRUE]

\* update_changelog is called up to MaxRuns times in a row on one file; unit
\* keeps the file before the first call (orig), the file now, and what the
\* last call returned and whether it wrote.
Call_update_changelog ==
  /\ unit.kind = "update_changelog"
  /\ unit.calls < MaxRuns
  /\ LET r == update_changelog_text(unit.file, unit.is_initial_release, unit.dry_run)
     IN  unit' = [unit EXCEPT !.before = unit.file, !.file = r.file, !.ret = r.ret,
                              !.wrote = r.wrote, !.calls = unit.calls + 1]
  /\ UNCHANGED <<pc, prompt, answer, result, exit_code, trace, scan, cli, skip_stages, fs,
                 alire, writes, cmds, touched, outcome, git, runs, uv>>

\* no command is running: the state around a function called on its own
Idle ==
  /\ pc = "unit"
  /\ prompt = "none"
  /\ answer = NoAnswer
  /\ result = "running"
  /\ exit_code = -1
  /\ trace = <<>>
  /\ scan = NoScan
  /\ skip_stages = {}
  /\ cli = [action |-> "prepare", skip |-> <<>>, version |-> "0.2.0", dry_run |-> FALSE, root |-> TRUE]
  /\ fs = [makefile |-> TRUE, readme |-> BaseProject.readme,
           changelog |-> BaseProject.changelog, workflow |-> FALSE]
  /\ alire = BaseProject.alire
  /\ writes = {}
  /\ cmds = {}
  /\ touched = FALSE
  /\ outcome = NoOutcome
  /\ git = NoGit
  /\ runs = 1
  /\ uv = NoUv

OldSection == Sec("Old", TRUE, <<"### Added", "- old">>)
Optional(S) == {<<>>} \cup {<<x>> : x \in S}
ChangelogDocs ==
  { un \o ve \o old :
      un \in Optional({Sec("Unreleased", FALSE, b) : b \in SeqsUpTo(UnreleasedLines, MaxBody)}),
      ve \in Optional({Sec("V", d, b) : d \in BOOLEAN,
                                        b \in SeqsUpTo(VersionSectionLines, MaxBody)}),
      old \in Optional({OldSection}) }
ChangelogFiles == {NoChangelog} \cup {ChangelogFile(doc) : doc \in ChangelogDocs}

InitChangelog ==
  /\ Idle
  /\ \E f \in ChangelogFiles, is_initial_release \in BOOLEAN, dry_run \in BOOLEAN :
       unit = [kind |-> "update_changelog", orig |-> f, before |-> f, file |-> f,
               is_initial_release |-> is_initial_release, dry_run |-> dry_run,
               ret |-> FALSE, wrote |-> FALSE, calls |-> 0]

NextChangelog == Call_update_changelog

SpecChangelog == InitChangelog /\ [][NextChangelog]_vars

\* the two update operations, each called on its own
InitUpdates == InitVersion \/ InitChangelog

NextUpdates == Call_update_version \/ Call_update_changelog

SpecUpdates == InitUpdates /\ [][NextUpdates]_vars

\* ------------------------------------------------ brand_project: replacement pairs
\* Text is a sequence of characters over a, b, A, B and _.  A project name is
\* snake_case: one or two words of two lowercase letters.
ToUpper(c) == CASE c = "a" -> "A" [] c = "b" -> "B" [] OTHER -> c
ToLower(c) == CASE c = "A" -> "a" [] c = "B" -> "b" [] OTHER -> c

\* str.split('_') and '_'.join / ''.join
RECURSIVE Split(_)
Split(s) ==
  IF \A i \in DOMAIN s : s[i] # "_" THEN <<s>>
  ELSE LET k == CHOOSE i \in DOMAIN s : s[i] = "_" /\ \A j \in 1..(i - 1) : s[j] # "_"
       IN  <<SubSeq(s, 1, k - 1)>> \o Split(SubSeq(s, k + 1, Len(s)))
RECURSIVE Join(_, _)
Join(sep, ws) ==
  IF ws = <<>> THEN <<>>
  ELSE IF Len(ws) = 1 THEN ws[1]
  ELSE ws[1] \o sep \o Join(sep, Tail(ws))

\* str.capitalize, str.upper
Capitalize(w) == [i \in DOMAIN w |-> IF i = 1 THEN ToUpper(w[i]) ELSE ToLower(w[i])]
Upper(s) == [i \in DOMAIN s |-> ToUpper(s[i])]

to_pascal_case(snake_case) ==
  LET ws == Split(snake_case) IN Join(<<>>, [i \in DOMAIN ws |-> Capitalize(ws[i])])
to_ada_pascal_case(snake_case) ==
  LET ws == Split(snake_case) IN Join(<<"_">>, [i \in DOMAIN ws |-> Capitalize(ws[i])])

\* the four spellings of a name, in the order of get_replacement_pairs
Variants(name) == <<to_ada_pascal_case(name), to_pascal_case(name), Upper(name), name>>

\* config.get_example_app_replacement_pairs: every example name, in the
\* order given, to the new name in the same four spellings
RECURSIVE get_example_app_replacement_pairs(_, _)
get_example_app_replacement_pairs(example_app_names, new_name) ==
  IF example_app_names = <<>> THEN <<>>
  ELSE [k \in 1..4 |-> <<Variants(Head(example_app_names))[k], Variants(new_name)[k]>>]
         \o get_example_app_replacement_pairs(Tail(example_app_names), new_name)

\* AdaAdapter.get_replacement_pairs
get_replacement_pairs(old_name, new_name, example_app_names) ==
  [k \in 1..4 |-> <<Variants(old_name)[k], Variants(new_name)[k]>>]
    \o get_example_app_replacement_pairs(example_app_names, new_name)

\* str.replace(old_text, new_text): every occurrence, left to right,
\* occurrences not overlapping
RECURSIVE StrReplace(_, _, _)
StrReplace(content, old_text, new_text) ==
  IF Len(content) < Len(old_text) THEN content
  ELSE IF SubSeq(content, 1, Len(old_text)) = old_text
  THEN new_text \o StrReplace(SubSeq(content, Len(old_text) + 1, Len(content)),
                              old_text, new_text)
  ELSE <<Head(content)>> \o StrReplace(Tail(content), old_text, new_text)

\* replace_in_files, lines 347-351: the pairs applied in order to one text
RECURSIVE ApplyPairs(_, _)
ApplyPairs(replacements, content) ==
  IF replacements = <<>> THEN content
  ELSE ApplyPairs(Tail(replacements),
                  StrReplace(content, Head(replacements)[1], Head(replacements)[2]))

\* AdaAdapter.get_example_app_names: the application template ("ab_aa" for
\* hybrid_app_ada) comes with two example names ("bba", "bb" for greeter,
\* greet), any other template with none
AppTemplate == <<"a", "b", "_", "a", "a">>
get_example_app_names(template_name) ==
  IF template_name = AppTemplate THEN << <<"b", "b", "a">>, <<"b", "b">> >> ELSE <<>>

\* the pair list is applied to one text up to MaxRuns times in a row; unit
\* keeps the text at the start (orig), before the last application (before)
\* and now (content)
Call_replace_in_files ==
  /\ unit.kind = "replace_in_files"
  /\ unit.calls < MaxRuns
  /\ unit' = [unit EXCEPT
                !.before = unit.content,
                !.content = ApplyPairs(get_replacement_pairs(unit.old_name, unit.new_name,
                                                             unit.example_app_names),
                                       unit.content),
                !.calls = unit.calls + 1]
  /\ UNCHANGED <<pc, prompt, answer, result, exit_code, trace, scan, cli, skip_stages, fs,
                 alire, writes, cmds, touched, outcome, git, runs, uv>>

Words == {<<x, y>> : x \in {"a", "b"}, y \in {"a", "b"}}
Names == Words \cup {Join(<<"_">>, <<v, w>>) : v \in Words, w \in Words}

\* the texts: a spelling of the old name, of an example name or of the new
\* name, alone or inside a longer identifier
Contents(old_name, new_name, example_app_names) ==
  LET tokens == UNION {Range(Variants(n)) :
                         n \in {old_name, new_name} \cup Range(example_app_names)}
  IN  tokens \cup {<<"b", "_">> \o t : t \in tokens}

InitBrand ==
  /\ Idle
  /\ \E old_name \in Names, new_name \in Names :
       \E content \in Contents(old_name, new_name, get_example_app_names(old_name)) :
         unit = [kind |-> "replace_in_files", old_name |-> old_name, new_name |-> new_name,
                 example_app_names |-> get_example_app_names(old_name), orig |-> content,
                 before |-> content, content |-> content, calls |-> 0]

NextBrand == Call_replace_in_files

SpecBrand == InitBrand /\ [][NextBrand]_vars

\* ------------------------------------------------ validate_exception_boundaries
\* An Ada body is its lines; a line is one of
\*   "code"                     no keyword, no comment
\*   "exception"                the keyword in code
\*   "-- exception"             a comment line that holds the word
\*   "code -- exception"        the word only in the inline comment
\*   "-- DESIGN DECISION"       a comment line that documents a handler
\*   "exception -- DELIBERATE"  the keyword with the documenting comment inline
MaxAdbLines == 7       \* longest Ada body (in lines) that is enumerated
DesignDecisionWindow == 5

AdbLine == {"code", "exception", "-- exception", "code -- exception",
            "-- DESIGN DECISION", "exception -- DELIBERATE"}

\* stripped.startswith('--')
IsCommentLine(l) == l \in {"-- exception", "-- DESIGN DECISION"}
\* exception_keyword_pattern.search(line[:line.index('--')])
KeywordInCode(l) == l \in {"exception", "exception -- DELIBERATE"}
\* design_decision_pattern.search(lines[j - 1])
HasDesignDecision(l) == l \in {"-- DESIGN DECISION", "exception -- DELIBERATE"}

\* the lines i, i+1, .. i+5 hold a documenting comment
DocumentedBelow(lines, i) ==
  \E j \in i..(i + DesignDecisionWindow) : j <= Len(lines) /\ HasDesignDecision(lines[j])

\* a scan that honours no documenting comment
exception_line_num_undocumented(lines) ==
  LET hits == {i \in DOMAIN lines : ~IsCommentLine(lines[i]) /\ KeywordInCode(lines[i])}
  IN  IF hits = {} THEN 0 ELSE CHOOSE i \in hits : \A k \in hits : i <= k

\* lines 1805-1829: the line of the first keyword that is neither in a
\* comment nor documented, 0 when has_exception_keyword stays False
exception_line_num(lines) ==
  LET hits == {i \in DOMAIN lines : /\ ~IsCommentLine(lines[i])
                                    /\ KeywordInCode(lines[i])
                                    /\ ~DocumentedBelow(lines, i)}
  IN  IF hits = {} THEN 0 ELSE CHOOSE i \in hits : \A k \in hits : i <= k

\* project = [ada, src, file]: alire.toml exists, src/ exists, and the one
\* .adb file below src/ as [dir, name, lines].  Returns [is_valid, violations],
\* a violation being the reported line number.
validate_exception_boundaries(project) ==
  LET f == project.file
      checked == /\ project.ada
                 /\ project.src
                 /\ f.name \notin {"main.adb", "greeter.adb"}
                 /\ f.dir \in {"src/infrastructure/", "src/presentation/", "src/domain/",
                               "src/application/", "src/api/"}
      violations == IF checked /\ exception_line_num(f.lines) # 0
                    THEN <<exception_line_num(f.lines)>> ELSE <<>>
  IN  [is_valid |-> violations = <<>>, violations |-> violations]

Call_validate_exception_boundaries ==
  /\ unit.kind = "validate_exception_boundaries"
  /\ unit.calls = 0
  /\ unit' = [unit EXCEPT !.ret = validate_exception_boundaries(unit.project),
                          !.calls = 1]
  /\ UNCHANGED <<pc, prompt, answer, result, exit_code, trace, scan, cli, skip_stages, fs,
                 alire, writes, cmds, touched, outcome, git, runs, uv>>

\* bodies of up to MaxAdbLines lines of which at most two are not plain code
AdbBodies ==
  { [i \in 1..n |-> IF i = p THEN x ELSE IF i = q THEN y ELSE "code"] :
      n \in 1..MaxAdbLines, p \in 1..MaxAdbLines, q \in 1..MaxAdbLines,
      x \in AdbLine, y \in AdbLine }
AdbFiles ==
  { [dir |-> dir, name |-> name, lines |-> lines] :
      dir \in {"src/domain/", "src/infrastructure/", "src/bootstrap/", "src/util/"},
      name \in {"parser.adb", "main.adb"}, lines \in AdbBodies }

InitExceptions ==
  /\ Idle
  /\ \E ada \in BOOLEAN, src \in BOOLEAN, file \in AdbFiles :
       /\ (~ada \/ ~src) => (file.dir = "src/domain/" /\ file.name = "parser.adb")
       /\ unit = [kind |-> "validate_exception_boundaries",
                  project |-> [ada |-> ada, src |-> src, file |-> file],
                  ret |-> [is_valid |-> TRUE, violations |-> <<>>], calls |-> 0]

NextExceptions == Call_validate_exception_boundaries

SpecExceptions == InitExceptions /\ [][NextExceptions]_vars

\* ------------------------------------------------ validate_ai_assistance_section on its own
MaxSections == 3       \* most level 1-3 headings of a README that is enumerated

Call_validate_ai_assistance_section ==
  /\ unit.kind = "validate_ai_assistance_section"
  /\ unit.calls = 0
  /\ unit' = [unit EXCEPT !.ret = validate_ai_assistance_section(unit.readme), !.calls = 1]
  /\ UNCHANGED <<pc, prompt, answer, result, exit_code, trace, scan, cli, skip_stages, fs,
                 alire, writes, cmds, touched, outcome, git, runs, uv>>

\* READMEs of up to MaxSections sections; the AI sections of one README
\* share their text
AiReadmes ==
  {NoReadme} \cup
  { Readme([i \in DOMAIN hs |-> Section(hs[i], IF hs[i] = "ai" THEN body ELSE {})]) :
      hs \in SeqsUpTo({"contributing", "ai", "license", "other"}, MaxSections),
      body \in SUBSET (RequiredPhrases \cup {"responsible"}) }

InitAi ==
  /\ Idle
  /\ \E readme \in AiReadmes :
       unit = [kind |-> "validate_ai_assistance_section", readme |-> readme,
               ret |-> [ok |-> FALSE, n |-> 0], calls |-> 0]

NextAi == Call_validate_ai_assistance_section

SpecAi == InitAi /\ [][NextAi]_vars

\* ---------------------------------------------------------------- detect_language
\* What the language probes look at in a project directory: the marker files
\* in its root, where its *.gpr files lie ("root", under "src", or in some
\* "other" subdirectory) and whether any .ads/.adb file lies anywhere in it.
GprPlaces == {"root", "src", "other"}

LanguageDirs ==
  [go_mod : BOOLEAN, go_work : BOOLEAN, alire_toml : BOOLEAN, cargo_toml : BOOLEAN,
   gprs : SUBSET GprPlaces, ada_sources : BOOLEAN]

\* the probes with Cargo.toml ahead of the Ada markers
detect_language_rust_first(dir) ==
  IF dir.go_mod \/ dir.go_work THEN "go"
  ELSE IF dir.cargo_toml THEN "rust"
  ELSE IF dir.alire_toml \/ "root" \in dir.gprs \/ "src" \in dir.gprs THEN "ada"
  ELSE "None"

\* common.detect_language
detect_language(dir) ==
  IF dir.go_mod \/ dir.go_work THEN "go"
  ELSE IF dir.alire_toml THEN "ada"
  ELSE IF "root" \in dir.gprs THEN "ada"
  ELSE IF "src" \in dir.gprs THEN "ada"
  ELSE IF dir.cargo_toml THEN "rust"
  ELSE "None"

\* GoReleaseAdapter.detect, by the detector's contract: the two Go markers
GoReleaseAdapter_detect(dir) == dir.go_mod \/ dir.go_work

\* AdaReleaseAdapter.detect: the glob '**/*.gpr' also matches the root
AdaReleaseAdapter_detect(dir) ==
  \/ dir.alire_toml
  \/ "root" \in dir.gprs
  \/ dir.gprs # {}
  \/ dir.ada_sources

\* release.detect_language
release_detect_language(dir) ==
  IF GoReleaseAdapter_detect(dir) THEN "go"
  ELSE IF AdaReleaseAdapter_detect(dir) THEN "ada"
  ELSE "None"

Call_detect_language ==
  /\ unit.kind = "detect_language"
  /\ unit.common = "pending"
  /\ unit' = [unit EXCEPT !.common = detect_language(unit.dir)]
  /\ UNCHANGED <<pc, prompt, answer, result, exit_code, trace, scan, cli, skip_stages, fs,
                 alire, writes, cmds, touched, outcome, git, runs, uv>>

Call_release_detect_language ==
  /\ unit.kind = "detect_language"
  /\ unit.release = "pending"
  /\ unit' = [unit EXCEPT !.release = release_detect_language(unit.dir)]
  /\ UNCHANGED <<pc, prompt, answer, result, exit_code, trace, scan, cli, skip_stages, fs,
                 alire, writes, cmds, touched, outcome, git, runs, uv>>

InitLanguage ==
  /\ Idle
  /\ \E dir \in LanguageDirs :
       unit = [kind |-> "detect_language", dir |-> dir,
               common |-> "pending", release |-> "pending"]

NextLanguage == Call_detect_language \/ Call_release_detect_language

SpecLanguage == InitLanguage /\ [][NextLanguage]_vars

\* ---------------------------------------------------------------- detect_project_type
\* A directory name is its words joined by "_"; no word holds an underscore.
MaxNameWords == 3

NameWords == {"x", "lib", "app", "Lib"}

lower(w) == CASE w = "Lib" -> "lib" [] OTHER -> w

\* "_<w>_" in name.lower(): some inner word is w
NameContains(name, w) == \E i \in 2..(Len(name) - 1) : lower(name[i]) = w

\* name.lower().endswith("_<w>")
NameEndsWith(name, w) == Len(name) >= 2 /\ lower(name[Len(name)]) = w

\* What the classifiers look at: where api, bootstrap and cmd exist ("root",
\* under "src"), the *.gpr files of the root (plain, with a Library_Name or
\* Library_Kind attribute, or unreadable) and the directory's name.
DirPlaces == {"root", "src"}

TypeDirs ==
  [api : SUBSET DirPlaces, bootstrap : SUBSET DirPlaces, cmd : SUBSET DirPlaces,
   root_gprs : SUBSET {"plain", "library", "unreadable"},
   name : SeqsUpTo(NameWords, MaxNameWords) \ {<<>>}]

\* common.detect_project_type: TRUE for a library
detect_project_type(dir) ==
  LET has_api == dir.api # {}
      has_bootstrap == dir.bootstrap # {}
      has_cmd == dir.cmd # {}
  IN IF has_api /\ ~has_bootstrap /\ ~has_cmd THEN TRUE
     ELSE IF has_bootstrap \/ has_cmd THEN FALSE
     ELSE IF "library" \in dir.root_gprs THEN TRUE
     ELSE IF NameContains(dir.name, "lib") \/ NameEndsWith(dir.name, "lib") THEN TRUE
     ELSE IF NameContains(dir.name, "app") \/ NameEndsWith(dir.name, "app") THEN FALSE
     ELSE FALSE

\* a classifier that knows the "_lib_" infix only
detect_project_type_infix_only(dir) ==
  LET has_api == "root" \in dir.api \/ "src" \in dir.api
      has_bootstrap == "root" \in dir.bootstrap \/ "src" \in dir.bootstrap
      has_cmd == "root" \in dir.cmd \/ "src" \in dir.cmd
  IN IF has_api /\ ~has_bootstrap /\ ~has_cmd THEN TRUE
     ELSE IF has_bootstrap \/ has_cmd THEN FALSE
     ELSE IF "library" \in dir.root_gprs THEN TRUE
     ELSE NameContains(dir.name, "lib")

\* BaseReleaseAdapter._detect_project_type: TRUE for a library
_detect_project_type(dir) ==
  LET has_api == "root" \in dir.api \/ "src" \in dir.api
      has_bootstrap == "root" \in dir.bootstrap \/ "src" \in dir.bootstrap
      has_cmd == "root" \in dir.cmd \/ "src" \in dir.cmd
  IN IF has_api /\ ~has_bootstrap /\ ~has_cmd THEN TRUE
     ELSE IF has_bootstrap \/ has_cmd THEN FALSE
     ELSE IF \E g \in dir.root_gprs : g = "library" THEN TRUE
     ELSE IF NameContains(dir.name, "lib") \/ NameEndsWith(dir.name, "lib") THEN TRUE
     ELSE IF NameContains(dir.name, "app") \/ NameEndsWith(dir.name, "app") THEN FALSE
     ELSE FALSE

Call_detect_project_type ==
  /\ unit.kind = "detect_project_type"
  /\ "common" \notin unit.called
  /\ unit' = [unit EXCEPT !.common = detect_project_type(unit.dir),
                          !.called = @ \cup {"common"}]
  /\ UNCHANGED <<pc, prompt, answer, result, exit_code, trace, scan, cli, skip_stages, fs,
                 alire, writes, cmds, touched, outcome, git, runs, uv>>

Call__detect_project_type ==
  /\ unit.kind = "detect_project_type"
  /\ "release" \notin unit.called
  /\ unit' = [unit EXCEPT !.release = _detect_project_type(unit.dir),
                          !.called = @ \cup {"release"}]
  /\ UNCHANGED <<pc, prompt, answer, result, exit_code, trace, scan, cli, skip_stages, fs,
                 alire, writes, cmds, touched, outcome, git, runs, uv>>

InitType ==
  /\ Idle
  /\ \E dir \in TypeDirs :
       unit = [kind |-> "detect_project_type", dir |-> dir, called |-> {},
               common |-> FALSE, release |-> FALSE]

NextType == Call_detect_project_type \/ Call__detect_project_type

SpecType == InitType /\ [][NextType]_vars

\* ------------------------------------------------ brand_project: the target tree
\* A file of the target tree: the directory it lies in, its name (the
\* characters of the stem and the extension as one last element), its text
\* and how the file system treats it:
\*   "ok"           read and written
\*   "undecodable"  read_text raises UnicodeDecodeError
\*   "unreadable"   read_text raises OSError
\*   "readonly"     read, but write_text raises PermissionError on opening
\* The protected name and pattern are one element each, spelled with
\* letters no project name has.
text_file_extensions == {".adb", ".md"}
SKIP_TEXT_REPLACEMENT_FILES == {<<".gitmodules">>}
SKIP_TEXT_REPLACEMENT_PATTERNS == {"hybrid_python_scripts"}

TreeFile(dir, name, content, state) ==
  [dir |-> dir, name |-> name, content |-> content, state |-> state]

\* Path.suffix: a name that is only a leading-dot word has none
Suffix(name) == IF Len(name) >= 2 THEN name[Len(name)] ELSE ""

\* is_text_file; none of COMMON_TEXT_FILENAMES is in the trees
is_text_file(f) == Suffix(f.name) \in text_file_extensions

should_skip_text_replacement_never(f) == FALSE

should_skip_text_replacement(f) ==
  \/ f.name \in SKIP_TEXT_REPLACEMENT_FILES
  \/ \E pattern \in SKIP_TEXT_REPLACEMENT_PATTERNS : pattern \in Range(<<f.dir>> \o f.name)

\* Path.rename on POSIX: the file takes the new name and replaces a file
\* that already has it
RECURSIVE Renames(_, _)
Renames(tree, files_to_rename) ==
  IF files_to_rename = <<>> THEN tree
  ELSE LET old == Head(files_to_rename)[1]
           new == Head(files_to_rename)[2]
           kept == SelectSeq(tree, LAMBDA f : ~(f.dir = old.dir /\ f.name = new))
       IN  Renames([i \in DOMAIN kept |->
                      IF kept[i].dir = old.dir /\ kept[i].name = old.name
                      THEN [kept[i] EXCEPT !.name = new] ELSE kept[i]],
                   Tail(files_to_rename))

\* rename_files: the files to rename are collected first, protected files
\* left out, then renamed in that order; a dry run renames nothing but
\* reports the same list
rename_files(tree, replacements, dry_run) ==
  LET picked == SelectSeq(tree, LAMBDA f : /\ ~should_skip_text_replacement(f)
                                           /\ ApplyPairs(replacements, f.name) # f.name)
      files_to_rename == [i \in DOMAIN picked |->
                            <<picked[i], ApplyPairs(replacements, picked[i].name)>>]
  IN  [tree |-> IF dry_run THEN tree ELSE Renames(tree, files_to_rename),
       renamed |-> [i \in DOMAIN files_to_rename |->
                     <<files_to_rename[i][1].dir, files_to_rename[i][2]>>]]

\* a loop body without the dry_run test
ReplaceInFile_dry_run_writes(f, replacements, dry_run) ==
  LET content == ApplyPairs(replacements, f.content)
  IN  IF ~is_text_file(f) \/ should_skip_text_replacement(f) \/ f.state # "ok"
         \/ content = f.content
        THEN [file |-> f, counted |-> FALSE, wrote |-> FALSE]
      ELSE [file |-> [f EXCEPT !.content = content], counted |-> TRUE, wrote |-> TRUE]

\* replace_in_files, lines 347-366, for one file: what is on disk after it
\* and whether it was counted
ReplaceInFile(f, replacements, dry_run) ==
  LET content == ApplyPairs(replacements, f.content)
  IN  IF ~is_text_file(f) \/ should_skip_text_replacement(f)
        THEN [file |-> f, counted |-> FALSE, wrote |-> FALSE]
      ELSE IF f.state \in {"undecodable", "unreadable"}
        THEN [file |-> f, counted |-> FALSE, wrote |-> FALSE]
      ELSE IF content = f.content
        THEN [file |-> f, counted |-> FALSE, wrote |-> FALSE]
      ELSE IF dry_run
        THEN [file |-> f, counted |-> TRUE, wrote |-> FALSE]
      ELSE IF f.state = "readonly"
        THEN [file |-> f, counted |-> FALSE, wrote |-> FALSE]
      ELSE [file |-> [f EXCEPT !.content = content], counted |-> TRUE, wrote |-> TRUE]

\* a loop that ends at the first file that raises
replace_in_files_fail_fast(tree, replacements, dry_run) ==
  LET each == [i \in DOMAIN tree |-> ReplaceInFile(tree[i], replacements, dry_run)]
      stop == {i \in DOMAIN tree : tree[i].state # "ok"}
      seen(i) == \A j \in stop : i < j
  IN  [tree |-> [i \in DOMAIN tree |-> IF seen(i) THEN each[i].file ELSE tree[i]],
       modified_count |-> Cardinality({i \in DOMAIN tree : seen(i) /\ each[i].counted}),
       wrote |-> {i \in DOMAIN tree : seen(i) /\ each[i].wrote}]

\* replace_in_files: every file of the tree in turn; wrote holds the
\* positions of the files written back
replace_in_files(tree, replacements, dry_run) ==
  LET each == [i \in DOMAIN tree |-> ReplaceInFile(tree[i], replacements, dry_run)]
  IN  [tree |-> [i \in DOMAIN tree |-> each[i].file],
       modified_count |-> Cardinality({i \in DOMAIN tree : each[i].counted}),
       wrote |-> {i \in DOMAIN tree : each[i].wrote}]

\* brand_project, Step 3: adapter.rename_files; unit.before is the tree the
\* last step started on
Step_rename_files ==
  /\ unit.kind = "brand_tree"
  /\ unit.done = <<>>
  /\ LET ret == rename_files(unit.tree, get_replacement_pairs(unit.old_name, unit.new_name,
                                                              unit.example_app_names),
                             unit.dry_run)
     IN  unit' = [unit EXCEPT !.before = unit.tree, !.tree = ret.tree,
                              !.renamed = ret.renamed, !.done = <<"rename_files">>]
  /\ UNCHANGED <<pc, prompt, answer, result, exit_code, trace, scan, cli, skip_stages, fs,
                 alire, writes, cmds, touched, outcome, git, runs, uv>>

\* brand_project, Step 4: adapter.replace_in_files, after Step 3 or called
\* on its own
Step_replace_in_files ==
  /\ unit.kind = "brand_tree"
  /\ "replace_in_files" \notin Range(unit.done)
  /\ LET ret == replace_in_files(unit.tree, get_replacement_pairs(unit.old_name, unit.new_name,
                                                                  unit.example_app_names),
                                 unit.dry_run)
     IN  unit' = [unit EXCEPT !.before = unit.tree, !.tree = ret.tree,
                              !.modified_count = ret.modified_count, !.wrote = ret.wrote,
                              !.done = Append(unit.done, "replace_in_files")]
  /\ UNCHANGED <<pc, prompt, answer, result, exit_code, trace, scan, cli, skip_stages, fs,
                 alire, writes, cmds, touched, outcome, git, runs, uv>>

\* the trees: up to MaxFiles files of different paths, in the order rglob
\* yields them; a file's text is the old name or has no name in it
MaxFiles == 2

TreeNames(old_name, new_name) ==
  { [dir |-> "root", name |-> old_name \o <<".adb">>],
    [dir |-> "root", name |-> new_name \o <<".adb">>],
    [dir |-> "root", name |-> old_name \o <<".o">>],
    [dir |-> "root", name |-> <<".gitmodules">>],
    [dir |-> "root", name |-> <<"hybrid_python_scripts">> \o old_name \o <<".md">>],
    [dir |-> "hybrid_python_scripts", name |-> old_name \o <<".adb">>] }

TreeFiles(old_name, new_name) ==
  { TreeFile(n.dir, n.name, content, state) :
      n \in TreeNames(old_name, new_name),
      content \in {old_name, <<"_">>},
      state \in {"ok", "undecodable", "unreadable", "readonly"} }

Trees(old_name, new_name) ==
  { t \in SeqsUpTo(TreeFiles(old_name, new_name), MaxFiles) :
      \A i, j \in DOMAIN t : i # j => <<t[i].dir, t[i].name>> # <<t[j].dir, t[j].name>> }

InitTree ==
  /\ Idle
  /\ \E old_name \in {<<"a", "b">>}, new_name \in {<<"b", "b">>, <<"a", "b", "_", "b", "b">>},
        dry_run \in BOOLEAN :
       \E tree \in Trees(old_name, new_name) :
         unit = [kind |-> "brand_tree", old_name |-> old_name, new_name |-> new_name,
                 example_app_names |-> get_example_app_names(old_name), dry_run |-> dry_run,
                 orig |-> tree, before |-> tree, tree |-> tree, renamed |-> <<>>,
                 modified_count |-> 0, wrote |-> {}, done |-> <<>>]

NextTree == Step_rename_files \/ Step_replace_in_files

SpecTree == InitTree /\ [][NextTree]_vars

\* ------------------------------------------------ validate_links: external URLs
\* The loop over sorted(external_urls), lines 501-543.  unit counts what the
\* loop has done (urls left, checked, HEAD and GET requests sent, errors
\* recorded) and keeps the last URL it looked at: whether it started with
\* project_url, what HEAD and GET answered, whether it was probed and
\* whether it was recorded as an error.
max_checks == 10
MaxUrls == 12

HeadAnswers == {"ok", "status>=400", "HTTPError 405", "HTTPError", "Exception"}
GetAnswers == {"ok", "Exception"}
NoUrl == [self |-> FALSE, head |-> "none", get |-> "none", probed |-> FALSE, error |-> FALSE]

\* one URL that counts against the budget even when it is the project's own
after_url_counting_self(u, self, head, get) ==
  LET skipped == u.project_url /\ self
      retried == ~skipped /\ head = "HTTPError 405"
      error == ~skipped /\ (head \in {"status>=400", "HTTPError", "Exception"}
                            \/ (retried /\ get = "Exception"))
  IN  [u EXCEPT !.left = @ - 1,
                !.checked = @ + 1,
                !.heads = IF skipped THEN @ ELSE @ + 1,
                !.gets = IF retried THEN @ + 1 ELSE @,
                !.errors = IF error THEN @ + 1 ELSE @,
                !.last = [self |-> self, head |-> IF skipped THEN "none" ELSE head,
                          get |-> IF retried THEN get ELSE "none",
                          probed |-> ~skipped, error |-> error]]

\* lines 513-541: one URL of the loop; self tells whether it starts with
\* project_url, head and get what the server answers
after_url(u, self, head, get) ==
  IF u.project_url /\ self
  THEN [u EXCEPT !.left = @ - 1,
                 !.last = [NoUrl EXCEPT !.self = TRUE]]
  ELSE LET retried == head = "HTTPError 405"
           error == CASE head = "ok" -> FALSE
                      [] head = "status>=400" -> TRUE
                      [] head = "HTTPError 405" -> get = "Exception"
                      [] OTHER -> TRUE
       IN  [u EXCEPT !.left = @ - 1,
                     !.checked = @ + 1,
                     !.heads = @ + 1,
                     !.gets = IF retried THEN @ + 1 ELSE @,
                     !.errors = IF error THEN @ + 1 ELSE @,
                     !.last = [self |-> self, head |-> head,
                               get |-> IF retried THEN get ELSE "none",
                               probed |-> TRUE, error |-> error]]

validate_links_url ==
  /\ unit.kind = "validate_links"
  /\ unit.at = "loop"
  /\ unit.left > 0
  /\ unit.checked < max_checks
  /\ \E self \in BOOLEAN, head \in HeadAnswers, get \in GetAnswers :
       unit' = after_url(unit, self, head, get)
  /\ UNCHANGED <<pc, prompt, answer, result, exit_code, trace, scan, cli, skip_stages, fs,
                 alire, writes, cmds, touched, outcome, git, runs, uv>>

\* lines 508-511 and the end of the for loop: no URL left, or the budget
\* used up
validate_links_break ==
  /\ unit.kind = "validate_links"
  /\ unit.at = "loop"
  /\ unit.left = 0 \/ unit.checked >= max_checks
  /\ unit' = [unit EXCEPT !.at = "after"]
  /\ UNCHANGED <<pc, prompt, answer, result, exit_code, trace, scan, cli, skip_stages, fs,
                 alire, writes, cmds, touched, outcome, git, runs, uv>>

InitLinks ==
  /\ Idle
  /\ \E n \in 0..MaxUrls, project_url \in BOOLEAN :
       unit = [kind |-> "validate_links", urls |-> n, project_url |-> project_url,
               at |-> "loop", left |-> n, checked |-> 0, heads |-> 0, gets |-> 0,
               errors |-> 0, last |-> NoUrl]

NextLinks == validate_links_url \/ validate_links_break

SpecLinks == InitLinks /\ [][NextLinks]_vars

\* ------------------------------------------------ verify_submodules_current
\* A project as the function sees it: whether .gitmodules exists, what
\* git submodule status answers ("failed", "empty" or the submodules it
\* lists) and, for each submodule listed: whether its line is marked with
\* "+", what git status --porcelain answers there, whether git fetch origin
\* succeeds and how many commits git log HEAD..origin/main lists (-1 when
\* the command fails).
MaxSubmodules == 2

Submodules ==
  [marked : BOOLEAN, status : {"clean", "dirty", "failed"}, fetch : BOOLEAN,
   behind : {-1, 0, 1, 4}]

\* the issues of one submodule: line 637, line 646, lines 667-674
RECURSIVE CommitLines(_, _)
CommitLines(at, n) ==
  IF n = 0 THEN <<>> ELSE CommitLines(at, n - 1) \o << <<at, "commit", n>> >>

Min(a, b) == IF a < b THEN a ELSE b

\* the loop body with a return after the first issue of a submodule
SubmoduleChecks_fail_fast(at, s) ==
  IF s.marked THEN [issues |-> << <<at, "marked">> >>, evaluated |-> {"marked"}]
  ELSE IF s.status = "dirty"
  THEN [issues |-> << <<at, "dirty">> >>, evaluated |-> {"marked", "dirty"}]
  ELSE [issues |-> IF s.fetch /\ s.behind > 0 THEN << <<at, "behind", s.behind>> >> ELSE <<>>,
        evaluated |-> {"marked", "dirty"} \cup (IF s.fetch THEN {"behind"} ELSE {})]

\* lines 632-680: the three checks of the submodule at position at
SubmoduleChecks(at, s) ==
  [issues |->
     (IF s.marked THEN << <<at, "marked">> >> ELSE <<>>)
     \o (IF s.status = "dirty" THEN << <<at, "dirty">> >> ELSE <<>>)
     \o (IF s.fetch /\ s.behind > 0
         THEN << <<at, "behind", s.behind>> >> \o CommitLines(at, Min(s.behind, 3))
              \o (IF s.behind > 3 THEN << <<at, "more", s.behind - 3>> >> ELSE <<>>)
         ELSE <<>>),
   evaluated |-> {"marked", "dirty"} \cup (IF s.fetch THEN {"behind"} ELSE {})]

RECURSIVE AllSubmoduleChecks(_, _)
AllSubmoduleChecks(submodules, at) ==
  IF at > Len(submodules) THEN <<>>
  ELSE <<SubmoduleChecks(at, submodules[at])>> \o AllSubmoduleChecks(submodules, at + 1)

RECURSIVE Flatten(_)
Flatten(qs) == IF qs = <<>> THEN <<>> ELSE Head(qs) \o Flatten(Tail(qs))

\* verify_submodules_current: (all_current, issues), and which checks were
\* evaluated for each submodule
verify_submodules_current(project) ==
  IF ~project.gitmodules THEN [all_current |-> TRUE, issues |-> <<>>, evaluated |-> <<>>]
  ELSE IF project.listing = "failed"
    THEN [all_current |-> FALSE, issues |-> << <<0, "status">> >>, evaluated |-> <<>>]
  ELSE IF project.listing = "empty"
    THEN [all_current |-> TRUE, issues |-> <<>>, evaluated |-> <<>>]
  ELSE LET each == AllSubmoduleChecks(project.submodules, 1)
           issues == Flatten([i \in DOMAIN each |-> each[i].issues])
       IN  [all_current |-> Len(issues) = 0, issues |-> issues,
            evaluated |-> [i \in DOMAIN each |-> each[i].evaluated]]

Call_verify_submodules_current ==
  /\ unit.kind = "verify_submodules_current"
  /\ ~unit.called
  /\ unit' = [unit EXCEPT !.ret = verify_submodules_current(unit.project), !.called = TRUE]
  /\ UNCHANGED <<pc, prompt, answer, result, exit_code, trace, scan, cli, skip_stages, fs,
                 alire, writes, cmds, touched, outcome, git, runs, uv>>

SubmoduleProjects ==
  { [gitmodules |-> g, listing |-> l, submodules |-> <<>>] :
      g \in BOOLEAN, l \in {"failed", "empty"} }
  \cup { [gitmodules |-> TRUE, listing |-> "listed", submodules |-> ss] :
           ss \in SeqsUpTo(Submodules, MaxSubmodules) \ {<<>>} }

InitSubmodules ==
  /\ Idle
  /\ \E project \in SubmoduleProjects :
       unit = [kind |-> "verify_submodules_current", project |-> project, called |-> FALSE,
               ret |-> [all_current |-> FALSE, issues |-> <<>>, evaluated |-> <<>>]]

NextSubmodules == Call_verify_submodules_current

SpecSubmodules == InitSubmodules /\ [][NextSubmodules]_vars


\* ------------------------------------------------ brand_project: the steps
\* brand_project from Step 0 to its return.  unit keeps the template (source),
\* the target directory as it was at the start (orig) and as it is now
\* (target), what copy_template returned (file_count), the steps done and
\* what brand_project returned (ret, "running" until it returns).  A target
\* is whether the directory exists, its files, and what the later steps made
\* in it: "docs" (Step 2), "config" (Step 5), "changelog" (Step 6), "git"
\* (Step 8), "xmlada" (Step 10).
Target(exists, tree, made) == [exists |-> exists, tree |-> tree, made |-> made]
NoTarget == Target(FALSE, <<>>, {})

\* should_exclude_file: of excluded_patterns only *.o names a file of the trees
should_exclude_file(f) == Suffix(f.name) = ".o"

IsCopied(f) == ~should_exclude_file(f)

\* a copy that does not look whether the target is there
copy_template_overwriting(source, target, dry_run) ==
  LET copied == SelectSeq(source, IsCopied)
  IN  [target |-> IF dry_run THEN target ELSE Target(TRUE, copied, target.made),
       file_count |-> Len(copied)]

\* copy_template: nothing and 0 when target_dir exists; else every file that
\* is not excluded is counted, and copied unless dry_run
copy_template(source, target, dry_run) ==
  IF target.exists THEN [target |-> target, file_count |-> 0]
  ELSE LET copied == SelectSeq(source, IsCopied)
       IN  [target |-> IF dry_run THEN target ELSE Target(TRUE, copied, {}),
            file_count |-> Len(copied)]

BrandSteps ==
  <<"copy_template", "setup_docs_structure", "rename_files", "replace_in_files",
    "update_config_files", "reset_changelog", "initialize_git_and_submodules", "validate">>

\* the step of brand_project that comes next, "none" once it has returned
NextBrandStep ==
  IF unit.kind # "brand_project" \/ unit.ret # "running" THEN "none"
  ELSE BrandSteps[Len(unit.done) + 1]

BrandUnchanged ==
  UNCHANGED <<pc, prompt, answer, result, exit_code, trace, scan, cli, skip_stages, fs,
              alire, writes, cmds, touched, outcome, git, runs, uv>>

\* a later step that makes something in the target unless dry_run, or fails
\* and is only warned about
Makes(step, what) ==
  /\ NextBrandStep = step
  /\ \E ok \in BOOLEAN :
       unit' = [unit EXCEPT
                  !.target.made = IF ok /\ ~unit.dry_run /\ unit.target.exists
                                   THEN @ \cup {what} ELSE @,
                  !.done = Append(@, step)]
  /\ BrandUnchanged

\* Steps 0 and 1: the submodules of the template are updated (not the
\* target), copy_template, and the return of False when nothing was copied
\* in a real run
Brand_copy_template ==
  /\ NextBrandStep = "copy_template"
  /\ LET r == copy_template(unit.source, unit.target, unit.dry_run)
     IN  unit' = [unit EXCEPT !.target = r.target, !.file_count = r.file_count,
                              !.done = <<"copy_template">>,
                              !.ret = IF r.file_count = 0 /\ ~unit.dry_run
                                      THEN "False" ELSE "running"]
  /\ BrandUnchanged

\* Step 2
Brand_setup_docs_structure == Makes("setup_docs_structure", "docs")

\* Step 3
Brand_rename_files ==
  /\ NextBrandStep = "rename_files"
  /\ LET r == rename_files(unit.target.tree,
                           get_replacement_pairs(unit.old_name, unit.new_name,
                                                 unit.example_app_names),
                           unit.dry_run)
     IN  unit' = [unit EXCEPT !.target.tree = r.tree, !.done = Append(@, "rename_files")]
  /\ BrandUnchanged

\* Step 4
Brand_replace_in_files ==
  /\ NextBrandStep = "replace_in_files"
  /\ LET r == replace_in_files(unit.target.tree,
                               get_replacement_pairs(unit.old_name, unit.new_name,
                                                     unit.example_app_names),
                               unit.dry_run)
     IN  unit' = [unit EXCEPT !.target.tree = r.tree, !.done = Append(@, "replace_in_files")]
  /\ BrandUnchanged

\* Step 5
Brand_update_config_files == Makes("update_config_files", "config")

\* Step 6
Brand_reset_changelog == Makes("reset_changelog", "changelog")

\* Steps 7 and 8: the verification only reads
Brand_initialize_git_and_submodules == Makes("initialize_git_and_submodules", "git")

\* Steps 9 and 10 and the return of True: the validation only reads,
\* configure_xmlada_dependency writes in a real run
Brand_validate ==
  /\ NextBrandStep = "validate"
  /\ \E ok \in BOOLEAN :
       unit' = [unit EXCEPT
                  !.target.made = IF ok /\ ~unit.dry_run /\ unit.target.exists
                                   THEN @ \cup {"xmlada"} ELSE @,
                  !.done = Append(@, "validate"),
                  !.ret = "True"]
  /\ BrandUnchanged

\* the templates: trees of readable files
ProjectTrees(old_name, new_name) ==
  { t \in Trees(old_name, new_name) : \A i \in DOMAIN t : t[i].state = "ok" }

\* the target directory at the start: absent, empty, or holding what an
\* earlier branding of the same template left
InitProject ==
  /\ Idle
  /\ \E old_name \in {<<"a", "b">>}, new_name \in {<<"b", "b">>, <<"a", "b", "_", "b", "b">>},
        dry_run \in BOOLEAN :
       \E source \in ProjectTrees(old_name, new_name) :
         \E target \in {NoTarget, Target(TRUE, <<>>, {}),
                        Target(TRUE, SelectSeq(source, IsCopied), {"docs", "git"})} :
           unit = [kind |-> "brand_project", old_name |-> old_name, new_name |-> new_name,
                   example_app_names |-> get_example_app_names(old_name),
                   dry_run |-> dry_run, source |-> source, orig |-> target,
                   target |-> target, file_count |-> 0, done |-> <<>>, ret |-> "running"]

NextProject ==
  \/ Brand_copy_template
  \/ Brand_setup_docs_structure
  \/ Brand_rename_files
  \/ Brand_replace_in_files
  \/ Brand_update_config_files
  \/ Brand_reset_changelog
  \/ Brand_initialize_git_and_submodules
  \/ Brand_validate

SpecProject == InitProject /\ [][NextProject]_vars
\* ================================================================ properties
Last(q) == IF q = <<>> THEN "none" ELSE q[Len(q)]
StageRan(s) == trace' = Append(trace, s)

\* prepare has gone beyond stage s
Passed(s) ==
  /\ cli.action = "prepare"
  /\ \/ result = "True"
     \/ /\ result = "running"
        /\ pc \in Range(PrepareOrder)
        /\ StageIdx(pc) > StageIdx(s)


AdvisoryStages ==
  { "validate_documentation", "scan_git_history_for_ai_markers",
    "scan_for_code_markers", "scan_for_long_files", "validate_spark_section",
    "verify_submodules_current" }

\* C1: once a mandatory stage of prepare_release has returned failure,
\* prepare has returned False (exit code 1), no prompt is open, and the
\* failed stage stays the last stage that was ever invoked.
C1_MandatoryFailureAborts ==
  /\ \A s \in MandatoryStages :
       (scan.stage = s /\ ~scan.ok /\ Last(trace) = s) =>
          /\ pc = "done"
          /\ result = "False"
          /\ exit_code = 1
          /\ prompt = "none"
  /\ outcome.failed # "none" =>
       /\ outcome.failed \in MandatoryStages
       /\ Last(trace) = outcome.failed
       /\ pc = "done"
       /\ result = "False"

\* a run that got as far as Windows CI validation and was ended by its failure
C1_Witness ==
  /\ scan.stage = "run_windows_validation"
  /\ ~scan.ok
  /\ outcome.failed = "run_windows_validation"
  /\ pc = "done"
  /\ result = "False"

\* C2: when the build command or the test commands exit non-zero, prepare
\* has returned False right there: run_build / run_tests returned failure
\* and nothing after them (the commit checkpoint included) is reached.
C2_BuildOrTestFailureAborts ==
  (outcome.build = "fail" \/ outcome.tests = "fail") =>
     /\ ~scan.ok
     /\ Last(trace) \in {"run_build", "run_tests"}
     /\ pc = "done"
     /\ result = "False"

\* C3: when validate_exception_boundaries ran and reported a violation,
\* no later stage runs and prepare never gets beyond the stage, whatever
\* the operator answers at a prompt.
C3_ExceptionViolationIsFatal ==
  outcome.exc > 0 =>
     /\ Last(trace) = "validate_exception_boundaries"
     /\ pc \in {"validate_exception_boundaries", "done"}
     /\ (pc = "done" => result = "False")

\* C4: prepare with dry_run set writes no file and starts no state-changing
\* subprocess, in any stage it reaches.
C4_DryRunTouchesNothing ==
  (cli.action = "prepare" /\ cli.dry_run) =>
     /\ writes = {}
     /\ cmds = {}
     /\ ~touched

\* What C5 says of one step of prepare, with Asks(s) telling from what the
\* scanner of advisory stage s returned whether the operator is prompted:
\* no prompt: the next stage is up; prompt: the run waits at s; q at the
\* prompt: prepare returns False and nothing more runs; ENTER: the next
\* stage is up; and a finished prepare invokes nothing more.
AdvisoryStep(Asks(_)) ==
  /\ \A s \in AdvisoryStages :
       /\ StageRan(s) =>
            IF Asks(s)
            THEN prompt' = s /\ pc' = s /\ result' = "running"
            ELSE prompt' = "none" /\ pc' = After(s) /\ result' = "running"
       /\ (prompt = s /\ answer'.r = "q") =>
            result' = "False" /\ pc' = "done" /\ trace' = trace
       /\ (prompt = s /\ answer'.r = "") =>
            result' = "running" /\ pc' = After(s) /\ prompt' = "none" /\ trace' = trace
  /\ (cli.action = "prepare" /\ pc = "done") => trace' = trace

FindingsAsk(s) == scan'.n > 0
FlagAsks(s) == ~scan'.ok

AiMissingOrMisplaced(readme) ==
  \/ ~readme.exists
  \/ \A i \in DOMAIN readme.sections : readme.sections[i].h # "ai"
  \/ LET secs == readme.sections
         ai == CHOOSE i \in DOMAIN secs :
                 secs[i].h = "ai" /\ \A j \in 1..(i - 1) : secs[j].h # "ai"
     IN  \/ \E c \in DOMAIN secs :
              /\ secs[c].h = "contributing" /\ ai < c
              /\ \A j \in 1..(c - 1) : secs[j].h # "contributing"
         \/ \E l \in DOMAIN secs :
              /\ secs[l].h = "license" /\ ai > l
              /\ \A j \in 1..(l - 1) : secs[j].h # "license"

\* C6: the AI-authorship stage never prompts; on a README whose section is
\* missing or misplaced prepare never gets beyond the stage and never
\* returns True, for every --skip value, and once the stage has run the
\* run is over with False.
C6_AiGateNotBypassable ==
  cli.action = "prepare" =>
    /\ prompt # "validate_ai_assistance_section"
    /\ AiMissingOrMisplaced(fs.readme) =>
         /\ ~Passed("validate_ai_assistance_section")
         /\ "validate_ai_assistance_section" \in Range(trace) =>
              /\ Last(trace) = "validate_ai_assistance_section"
              /\ ~scan.ok
              /\ pc = "done"
              /\ result = "False"

\* --skip=all on a README without a valid section: stopped at the stage
C6_Witness ==
  /\ skip_stages = SkippableStages
  /\ AiMissingOrMisplaced(fs.readme)
  /\ scan.stage = "validate_ai_assistance_section"
  /\ ~scan.ok
  /\ prompt = "none"
  /\ pc = "done"
  /\ result = "False"

\* the gating stages of prepare and the --skip name of each
Gates ==
  { [k |-> "exceptions", s |-> "validate_exception_boundaries"],
    [k |-> "spark", s |-> "run_spark_check"],
    [k |-> "windows", s |-> "run_windows_validation"] }

\* the stages of prepare that call the adapter and have no --skip name
UngatedStages ==
  Range(PrepareOrder) \ ({g.s : g \in Gates} \cup {"changelog_checkpoint", "commit_checkpoint"})

\* the run was ended by a KeyboardInterrupt or another exception
Interrupted == result \in {"KeyboardInterrupt", "Exception"}

\* What C7 says of one step, with Runs(g) telling whether the gating stage
\* g is run when it is not named in skip_stages: a named stage is not
\* invoked and the run goes on as after a pass; --skip=all gives the same
\* skip_stages as naming the three stages; a stage that is not named is
\* invoked when its turn comes. A step that interrupts the run invokes
\* nothing.
SkipStep(Runs(_)) ==
  /\ \A g \in Gates : g.k \in skip_stages' => g.s \notin Range(trace')
  /\ "spark" \in skip_stages' => "run_spark_prove" \notin Range(trace')
  /\ Interrupted' => trace' = trace
  /\ ~Interrupted' =>
       /\ (pc = "main" /\ pc' # "done"
             /\ cli.skip \in {<<"all">>, <<"windows", "spark", "exceptions">>}) =>
            skip_stages' = SkippableStages
       /\ \A g \in Gates :
            /\ (At(g.s) /\ g.k \in skip_stages) =>
                 trace' = trace /\ pc' = After(g.s) /\ result' = "running" /\ prompt' = "none"
            /\ (At(g.s) /\ g.k \notin skip_stages /\ Runs(g)) => StageRan(g.s)
       /\ (At("run_spark_prove") /\ "spark" \in skip_stages) =>
            trace' = trace /\ result' = "True"
       /\ (At("run_spark_prove") /\ "spark" \notin skip_stages) => StageRan("run_spark_prove")
       /\ \A s \in UngatedStages : At(s) => StageRan(s)

AlwaysRuns(g) == TRUE
RunsWithWorkflow(g) == g.k = "windows" => fs.workflow

\* C7 as stated: every gating stage that skip_stages does not name is
\* executed.
C7_UnnamedStagesRun == [][SkipStep(AlwaysRuns)]_vars

\* C7 (amended): a stage named in skip_stages is never invoked and the run
\* proceeds as if it had passed; --skip=all equals skipping the three
\* stages; every stage not named is still executed, except that Windows CI
\* validation is executed only if .github/workflows/windows-release.yml
\* exists also.
C7_SkipStages == [][SkipStep(RunsWithWorkflow)]_vars

\* prepare --skip=all returned True without invoking one of the three stages
C7_Witness ==
  /\ cli.action = "prepare"
  /\ cli.skip = <<"all">>
  /\ skip_stages = SkippableStages
  /\ result = "True"
  /\ Range(trace) \cap {g.s : g \in Gates} = {}
  /\ "run_tests" \in Range(trace)

\* C8: in create_release a tree that is not clean (or not readable) ends
\* the run with False after verify_clean_working_tree with nothing run;
\* create_git_tag is invoked only on a clean tree, push_changes only after
\* create_git_tag returned success, and the GitHub release is created or
\* edited only after both pushes of this run succeeded.
C8_ReleaseOrder ==
  cli.action = "release" =>
    /\ (git.tree # "clean" /\ trace # <<>>) =>
         /\ trace = <<"verify_clean_working_tree">>
         /\ pc = "done"
         /\ result = "False"
         /\ ~touched
         /\ git.pushed = {}
    /\ "create_git_tag" \in Range(trace) =>
         git.tree = "clean" /\ "verify_clean_working_tree" \in git.ok
    /\ "push_changes" \in Range(trace) => "create_git_tag" \in git.ok
    /\ "create_github_release" \in Range(trace) =>
         git.pushed = {"main", "tag"} /\ "push_changes" \in git.ok
    /\ (cmds \cap {"gh release create", "gh release edit", "gh release edit --notes"} # {}) =>
         git.pushed = {"main", "tag"}

\* the release command stopped by a dirty tree
C8_Witness ==
  /\ cli.action = "release"
  /\ git.tree = "dirty"
  /\ trace = <<"verify_clean_working_tree">>
  /\ pc = "done"
  /\ result = "False"

\* C9: when the tag exists create_git_tag runs no git tag -a and returns
\* success, so the run goes on to push_changes; over all runs of release
\* on a repository at most one tag is ever created.
C9_TagIdempotent ==
  cli.action = "release" =>
    /\ (scan.stage = "create_git_tag" /\ git.had_tag /\ ~Interrupted) =>
         /\ scan.ok
         /\ "git tag -a" \notin cmds
         /\ pc = "push_changes"
         /\ git.tag
    /\ git.created <= 1
    /\ git.created = 1 => git.tag

\* the second run finds the tag the first run created before its push failed
C9_Witness ==
  /\ cli.action = "release"
  /\ runs = 2
  /\ git.created = 1
  /\ git.remote = {}
  /\ scan.stage = "create_git_tag"
  /\ git.had_tag
  /\ scan.ok
  /\ pc = "push_changes"

\* the lines of a file that are version lines
VersionLines(file) == {i \in DOMAIN file.lines : file.lines[i].key = "version"}

\* C10: on an alire.toml with one version line whose value is not empty
\* and not the target, update_version returns success and leaves exactly one version
\* line, holding the target, every other line as it was; the next call
\* with the same target returns success, writes nothing and leaves the
\* file as it is.
C10_UpdateVersionIdempotent ==
  ( /\ uv.calls >= 1
    /\ uv.orig.exists
    /\ Cardinality(VersionLines(uv.orig)) = 1
    /\ \A i \in VersionLines(uv.orig) : uv.orig.lines[i].val \notin {"", cli.version} )
  =>
  /\ uv.ret
  /\ Len(alire.lines) = Len(uv.orig.lines)
  /\ Cardinality(VersionLines(alire)) = 1
  /\ \A i \in DOMAIN alire.lines :
       IF i \in VersionLines(uv.orig)
       THEN alire.lines[i] = [uv.orig.lines[i] EXCEPT !.val = cli.version]
       ELSE alire.lines[i] = uv.orig.lines[i]
  /\ uv.calls >= 2 => (~uv.wrote /\ alire = uv.before)

\* ---------------------------------------------------------------- C11
StandardSubheadings ==
  {"### Added", "### Changed", "### Deprecated", "### Removed", "### Fixed", "### Security"}

\* the file holds no section for the version and an [Unreleased] section
\* with something in it
PopulatedUnreleased(f) ==
  /\ f.exists
  /\ FirstSec(f.doc, "V") = 0
  /\ FirstSec(f.doc, "Unreleased") # 0
  /\ strip(f.doc[FirstSec(f.doc, "Unreleased")].body) # <<>>

\* C11: update_changelog for a later release, on a CHANGELOG.md with a
\* populated [Unreleased] section and no section for the version, succeeds
\* and leaves the file as before except that [Unreleased] is replaced by a new
\* [Unreleased] section that holds the six standard subheadings and nothing
\* else, followed by "## [version] - today" with the former [Unreleased]
\* content, line for line.
C11_UnreleasedMovesUnderVersion ==
  ( /\ unit.kind = "update_changelog"
    /\ unit.calls = 1
    /\ ~unit.is_initial_release
    /\ ~unit.dry_run
    /\ PopulatedUnreleased(unit.orig) )
  => LET old == unit.orig.doc
         new == unit.file.doc
         u == FirstSec(old, "Unreleased")
     IN  /\ unit.ret
         /\ Len(new) = Len(old) + 1
         /\ SubSeq(new, 1, u - 1) = SubSeq(old, 1, u - 1)
         /\ SubSeq(new, u + 2, Len(new)) = SubSeq(old, u + 1, Len(old))
         /\ new[u].h = "Unreleased"
         /\ Range(new[u].body) \ {"---"} = StandardSubheadings
         /\ new[u + 1] = Sec("V", TRUE, strip(old[u].body))

\* ---------------------------------------------------------------- C12
\* the file has a section for the version whose body is not a placeholder
HasReleasedVersion(f) ==
  /\ f.exists
  /\ FirstSec(f.doc, "V") # 0
  /\ has_meaningful_content(strip(f.doc[FirstSec(f.doc, "V")].body))

\* C12: a call of update_changelog on a CHANGELOG.md that already has a
\* section for the version with non-placeholder content returns True and
\* leaves the file as it is; and the second of two calls in a row with the
\* same version never changes the file.
C12_UpdateChangelogIdempotent ==
  /\ ( /\ unit.kind = "update_changelog"
       /\ unit.calls >= 1
       /\ HasReleasedVersion(unit.before) )
     => (unit.ret /\ ~unit.wrote /\ unit.file = unit.before)
  /\ (unit.kind = "update_changelog" /\ unit.calls = 2)
     => (~unit.wrote /\ unit.file = unit.before)

C14_ReplacementIdempotent ==
  (unit.kind = "replace_in_files" /\ unit.calls = 2) => unit.content = unit.before

\* ---------------------------------------------------------------- C15
\* C15: a text that is one spelling of the old name (Ada_Pascal, Pascal,
\* UPPER or snake) is after one application of the pairs the same spelling of
\* the new name.
C15_VariantToSameVariant ==
  (unit.kind = "replace_in_files" /\ unit.calls = 1) =>
    \A k \in 1..4 :
      unit.orig = Variants(unit.old_name)[k] =>
        \E j \in 1..4 : /\ unit.orig = Variants(unit.old_name)[j]
                        /\ unit.content = Variants(unit.new_name)[j]

\* ---------------------------------------------------------------- C16
\* the occurrences of the keyword outside comments
Occurrences(lines) ==
  {i \in DOMAIN lines : ~IsCommentLine(lines[i]) /\ KeywordInCode(lines[i])}
\* one of the five lines above line i holds a documenting comment
DocumentedAbove(lines, i) ==
  \E j \in (i - DesignDecisionWindow)..(i - 1) : j >= 1 /\ HasDesignDecision(lines[j])
ScannedDomainFile ==
  /\ unit.kind = "validate_exception_boundaries"
  /\ unit.calls = 1
  /\ unit.project.ada
  /\ unit.project.src
  /\ unit.project.file.dir = "src/domain/"

\* C16 as stated: a .adb file under src/domain/ is reported exactly when some
\* occurrence of the keyword outside comments has no documenting comment in
\* the five lines above it.
C16_DocumentedAbove ==
  ScannedDomainFile =>
    LET lines == unit.project.file.lines
    IN  ~unit.ret.is_valid <=> \E i \in Occurrences(lines) : ~DocumentedAbove(lines, i)

\* C16, amended: a .adb file under src/domain/, main.adb and greeter.adb
\* apart, is reported exactly when some occurrence of the keyword outside
\* comments has no documenting comment on its own line or in the five lines
\* below it; the report names the first such line.
C16_DocumentedBelow ==
  ScannedDomainFile =>
    LET lines == unit.project.file.lines
        open == {i \in Occurrences(lines) :
                   \A j \in i..(i + DesignDecisionWindow) :
                     j <= Len(lines) => ~HasDesignDecision(lines[j])}
    IN  IF unit.project.file.name \in {"main.adb", "greeter.adb"} \/ open = {}
        THEN unit.ret.is_valid /\ unit.ret.violations = <<>>
        ELSE /\ ~unit.ret.is_valid
             /\ Len(unit.ret.violations) = 1
             /\ unit.ret.violations[1] \in open
             /\ \A i \in open : unit.ret.violations[1] <= i

\* a domain file whose keyword is documented five lines further down passes
C16_Witness ==
  /\ ScannedDomainFile
  /\ unit.project.file.name = "parser.adb"
  /\ unit.project.file.lines[1] = "exception"
  /\ Len(unit.project.file.lines) >= 6
  /\ unit.project.file.lines[6] = "-- DESIGN DECISION"
  /\ \A j \in 2..5 : unit.project.file.lines[j] = "code"
  /\ unit.ret.is_valid

\* ---------------------------------------------------------------- C17
\* the README was scanned; its first AI section is not above the first
\* Contributing heading and not below the first License heading
AiScanned == unit.kind = "validate_ai_assistance_section" /\ unit.calls = 1
AiPlaced ==
  LET secs == unit.readme.sections
      ai == FirstIdx(secs, "ai")
      co == FirstIdx(secs, "contributing")
      li == FirstIdx(secs, "license")
  IN  unit.readme.exists /\ ai # 0 /\ (co # 0 => co < ai) /\ (li # 0 => ai < li)
AiText == unit.readme.sections[FirstIdx(unit.readme.sections, "ai")].body

\* the three parts of the claim, Lacks(body) telling when a required phrase
\* counts as removed
AiScanner(Lacks(_)) ==
  AiScanned =>
    /\ (AiPlaced /\ RequiredPhrases \subseteq AiText) => (unit.ret.ok /\ unit.ret.n = 0)
    /\ (AiPlaced /\ Lacks(AiText)) => (unit.ret.ok /\ unit.ret.n > 0)
    /\ ~AiPlaced => ~unit.ret.ok

LacksPhrase(body) == \E p \in RequiredPhrases : p \notin body
LacksAccepted(body) == \E p \in RequiredPhrases : Accepted(p) \cap body = {}

\* C17 as stated: a well placed section with all four phrases ("human
\* developer", "AI assistant", "tool", "accountable") is valid without
\* findings; with one of the four removed it is valid with findings; a missing
\* README or section, or a section above Contributing or below License, is
\* not valid whatever the text.
C17_PhraseRemoved == AiScanner(LacksPhrase)

\* C17, amended: a phrase counts as removed only when nothing its pattern
\* accepts is left in the section ("responsible" or "maintain" stand in for
\* "accountable").
C17_PatternUnmatched == AiScanner(LacksAccepted)

\* a well placed section that lost "tool" passed with findings
C17_Witness ==
  /\ AiScanned
  /\ AiPlaced
  /\ FirstIdx(unit.readme.sections, "contributing") # 0
  /\ FirstIdx(unit.readme.sections, "license") # 0
  /\ AiText = RequiredPhrases \ {"tool"}
  /\ unit.ret.ok
  /\ unit.ret.n > 0

\* ---------------------------------------------------------------- C18
\* C18: in a run of prepare_release the stages are started in the order of
\* PrepareOrder, none twice; run_build and run_tests are started only after
\* update_version has returned success; the commit checkpoint prompts only
\* after run_build and run_tests have returned success.
C18_StagesInOrder ==
  cli.action = "prepare" =>
    /\ \A i \in 1..(Len(trace) - 1) : StageIdx(trace[i]) < StageIdx(trace[i + 1])
    /\ \A s \in {"run_build", "run_tests"} :
         s \in Range(trace) =>
           "update_version" \in Range(trace) /\ "update_version" \in scan.passed
    /\ prompt = "commit_checkpoint" => {"run_build", "run_tests"} \subseteq scan.passed

\* the commit checkpoint is prompting
C18_Witness ==
  /\ cli.action = "prepare"
  /\ prompt = "commit_checkpoint"
  /\ Len(trace) >= 18

\* both language probes have looked at the directory
LanguageProbed ==
  unit.kind = "detect_language" /\ unit.common # "pending" /\ unit.release # "pending"

\* the stated priority: Go markers, then alire.toml or a *.gpr file, then
\* Cargo.toml, then nothing
StatedLanguage(dir) ==
  IF dir.go_mod \/ dir.go_work THEN "go"
  ELSE IF dir.alire_toml \/ dir.gprs # {} THEN "ada"
  ELSE IF dir.cargo_toml THEN "rust"
  ELSE "None"

\* C19 as stated: every language probe answers by the priority order Go
\* markers, else alire.toml or a *.gpr file for Ada, else Cargo.toml for Rust,
\* else None.
C19_StatedPriority ==
  LanguageProbed =>
    /\ unit.common = StatedLanguage(unit.dir)
    /\ unit.release = StatedLanguage(unit.dir)

\* C19 amended: Go markers win in both probes. Without them
\* common.detect_language gives Ada for alire.toml or a *.gpr in the root or
\* under src/, else Rust for Cargo.toml, else None; release.detect_language
\* gives Ada for alire.toml, a *.gpr at any depth or any .ads/.adb file, else
\* None, and never Rust.
C19_ProbePriority ==
  LanguageProbed =>
    LET dir == unit.dir
        go == dir.go_mod \/ dir.go_work
        ada_common == dir.alire_toml \/ dir.gprs \cap {"root", "src"} # {}
        ada_release == dir.alire_toml \/ dir.gprs # {} \/ dir.ada_sources
    IN /\ go => unit.common = "go" /\ unit.release = "go"
       /\ ~go /\ ada_common => unit.common = "ada"
       /\ ~go /\ ~ada_common /\ dir.cargo_toml => unit.common = "rust"
       /\ ~go /\ ~ada_common /\ ~dir.cargo_toml => unit.common = "None"
       /\ ~go /\ ada_release => unit.release = "ada"
       /\ ~go /\ ~ada_release => unit.release = "None"
       /\ unit.release # "rust"

\* a directory with Go, Ada and Rust markers was probed and found to be Go
C19_Witness ==
  /\ LanguageProbed
  /\ unit.dir.go_mod /\ unit.dir.alire_toml /\ unit.dir.cargo_toml
  /\ unit.common = "go" /\ unit.release = "go"

\* both classifiers have looked at the directory
TypeProbed ==
  unit.kind = "detect_project_type" /\ unit.called = {"common", "release"}

\* the directory has no api, bootstrap or cmd and no library build file, so
\* that its name decides
NameDecides(dir) ==
  dir.api = {} /\ dir.bootstrap = {} /\ dir.cmd = {} /\ "library" \notin dir.root_gprs

\* the stated classifier, api, bootstrap and cmd counted in either place:
\* the name makes a library only by the infix "_lib_"
StatedLibrary(dir) ==
  \/ dir.api # {} /\ dir.bootstrap = {} /\ dir.cmd = {}
  \/ NameDecides(dir) /\ NameContains(dir.name, "lib")
  \/ dir.api = {} /\ dir.bootstrap = {} /\ dir.cmd = {} /\ "library" \in dir.root_gprs

\* C20 as stated: both classifiers give the same answer, library exactly for
\* api without bootstrap and cmd, else application for bootstrap or cmd, else
\* library for a build file with a library marker, else library for "_lib_"
\* in the name, else application.
C20_StatedClassifier ==
  TypeProbed =>
    /\ unit.common = unit.release
    /\ unit.common = StatedLibrary(unit.dir)

\* C20 amended: both classifiers give the same answer for every directory:
\* library for api (in the root or under src/) without bootstrap and cmd,
\* application for bootstrap or cmd, else library for a readable root *.gpr
\* with a library attribute, else library for a lower-cased name that
\* contains "_lib_" or ends in "_lib", else application.
C20_SameClassifier ==
  TypeProbed =>
    LET dir == unit.dir
        shaped == dir.api # {} \/ dir.bootstrap # {} \/ dir.cmd # {}
        named_lib == \E i \in 2..Len(dir.name) : lower(dir.name[i]) = "lib"
    IN /\ unit.common = unit.release
       /\ dir.bootstrap # {} \/ dir.cmd # {} => ~unit.common
       /\ dir.api # {} /\ dir.bootstrap = {} /\ dir.cmd = {} => unit.common
       /\ ~shaped /\ "library" \in dir.root_gprs => unit.common
       /\ NameDecides(dir) => (unit.common <=> named_lib)

\* a directory named like "x_lib", with nothing else to decide, was found to
\* be a library by both classifiers
C20_Witness ==
  /\ TypeProbed
  /\ NameDecides(unit.dir)
  /\ NameEndsWith(unit.dir.name, "lib") /\ ~NameContains(unit.dir.name, "lib")
  /\ unit.common /\ unit.release

\* replace_in_files was the last step on the tree
Replaced == unit.kind = "brand_tree" /\ unit.done # <<>> /\ unit.done[Len(unit.done)] = "replace_in_files"

TreePairs == get_replacement_pairs(unit.old_name, unit.new_name, unit.example_app_names)

\* the tree with every file that can be read also writable
Writable(tree) ==
  [i \in DOMAIN tree |-> IF tree[i].state = "readonly" THEN [tree[i] EXCEPT !.state = "ok"]
                         ELSE tree[i]]

\* What C21 says, the dry-run count compared with a real run on the tree
\* real_tree: only a file whose text the pairs change is written and nothing
\* else of the tree changes; a dry run writes nothing and returns the count
\* of the real run.
WritesOnlyChanges(real_tree) ==
  Replaced =>
    /\ \A i \in unit.wrote : ApplyPairs(TreePairs, unit.before[i].content) # unit.before[i].content
    /\ \A i \in DOMAIN unit.before :
         unit.tree[i] = IF i \in unit.wrote
                        THEN [unit.before[i] EXCEPT !.content = ApplyPairs(TreePairs, @)]
                        ELSE unit.before[i]
    /\ unit.dry_run =>
         /\ unit.wrote = {}
         /\ unit.tree = unit.before
         /\ unit.modified_count = replace_in_files(real_tree, TreePairs, FALSE).modified_count

Eligible(f) ==
  /\ is_text_file(f)
  /\ ~should_skip_text_replacement(f)
  /\ ApplyPairs(TreePairs, f.content) # f.content

\* C22: in a real run of replace_in_files a file that fails to decode or
\* raises an I/O error on reading or writing is left as it was, every other
\* eligible file has the pairs applied to its text whatever its place in the
\* tree, and the count returned is the number of files modified.
C22_FailuresDoNotStopBatch ==
  (Replaced /\ ~unit.dry_run) =>
    /\ \A i \in DOMAIN unit.before :
         /\ unit.before[i].state # "ok" => unit.tree[i] = unit.before[i]
         /\ (unit.before[i].state = "ok" /\ Eligible(unit.before[i])) =>
              unit.tree[i].content = ApplyPairs(TreePairs, unit.before[i].content)
    /\ unit.modified_count = Cardinality({i \in DOMAIN unit.before : unit.tree[i] # unit.before[i]})

\* a file that cannot be read came first and the eligible file after it was
\* still rewritten and counted
C22_Witness ==
  /\ Replaced /\ ~unit.dry_run
  /\ Len(unit.before) = 2
  /\ unit.before[1].state \in {"undecodable", "unreadable"} /\ Eligible(unit.before[1])
  /\ unit.before[2].state = "ok" /\ Eligible(unit.before[2])
  /\ unit.tree[1] = unit.before[1]
  /\ unit.tree[2] # unit.before[2]
  /\ unit.modified_count = 1

\* C23: validate_links sends HEAD probes for at most 10 URLs however many
\* URLs the docs hold; a URL that starts with the project's own URL is not
\* probed and leaves the budget as it was; a HEAD answered with 405 is
\* followed by one GET, and that URL is an error exactly if the GET failed.
C23_ProbeBudget ==
  unit.kind = "validate_links" =>
    /\ unit.heads <= max_checks
    /\ unit.checked = unit.heads
    /\ unit.gets <= unit.heads
    /\ (unit.project_url /\ unit.last.self) => ~unit.last.probed /\ ~unit.last.error
    /\ unit.last.head = "HTTPError 405" =>
         /\ unit.last.get # "none"
         /\ unit.last.error <=> unit.last.get = "Exception"
    /\ unit.last.head # "HTTPError 405" => unit.last.get = "none"
    /\ (unit.at = "after" /\ unit.left > 0) => unit.heads = max_checks

\* 12 URLs, 10 of them probed, the others left alone, one of them the
\* project's own, and the last probe a 405 that a GET put right
C23_Witness ==
  /\ unit.kind = "validate_links"
  /\ unit.urls = MaxUrls
  /\ unit.heads = max_checks
  /\ unit.at = "after"
  /\ unit.left = 1
  /\ unit.last.head = "HTTPError 405" /\ unit.last.get = "ok" /\ ~unit.last.error

\* verify_submodules_current has returned for a project that lists submodules
SubmodulesVerified ==
  /\ unit.kind = "verify_submodules_current" /\ unit.called
  /\ unit.project.gitmodules /\ unit.project.listing = "listed"

\* the issues headed by a check of the submodule at position at
IssuesOf(at, check) ==
  {k \in DOMAIN unit.ret.issues : unit.ret.issues[k][1] = at /\ unit.ret.issues[k][2] = check}

\* What C24 says, with BehindChecked(s) telling for which submodules the
\* third check is evaluated: each check is evaluated for every submodule and
\* leaves its issue whatever was found before it, and all_current is TRUE
\* exactly for an empty issue list.
Aggregates(BehindChecked(_)) ==
  /\ (unit.kind = "verify_submodules_current" /\ unit.called) =>
       (unit.ret.all_current <=> unit.ret.issues = <<>>)
  /\ SubmodulesVerified =>
       \A at \in DOMAIN unit.project.submodules :
         LET s == unit.project.submodules[at]
         IN  /\ {"marked", "dirty"} \subseteq unit.ret.evaluated[at]
             /\ "behind" \in unit.ret.evaluated[at] <=> BehindChecked(s)
             /\ IssuesOf(at, "marked") # {} <=> s.marked
             /\ IssuesOf(at, "dirty") # {} <=> s.status = "dirty"
             /\ IssuesOf(at, "behind") # {} <=> (BehindChecked(s) /\ s.behind > 0)

EverySubmodule(s) == TRUE
Fetched(s) == s.fetch

ProtectedFile(f) ==
  \/ f.name = <<".gitmodules">>
  \/ f.dir = "hybrid_python_scripts"
  \/ "hybrid_python_scripts" \in Range(f.name)

PlaceholderVersion(f) ==
  /\ f.exists
  /\ FirstSec(f.doc, "V") # 0
  /\ f.doc[FirstSec(f.doc, "V")].dated
  /\ strip(f.doc[FirstSec(f.doc, "V")].body) = <<"TBD">>
  /\ FirstSec(f.doc, "Unreleased") # 0
  /\ LET body == f.doc[FirstSec(f.doc, "Unreleased")].body
     IN  /\ \E i \in DOMAIN body : IsBullet(body[i])
         /\ \A i \in DOMAIN body : Expand(body[i]) = body[i] /\ ~BadEscape(body[i])

\* C26: when CHANGELOG.md has a section for the version with placeholder
\* text only, update_changelog does not stop as for a prepared release: the
\* bullets of [Unreleased] are merged into the section of the version.
C26_PlaceholderMerged ==
  ( /\ unit.kind = "update_changelog"
    /\ unit.calls = 1
    /\ ~unit.dry_run
    /\ PlaceholderVersion(unit.orig) ) =>
      LET unreleased == unit.orig.doc[FirstSec(unit.orig.doc, "Unreleased")].body
          v == FirstSec(unit.file.doc, "V")
      IN  /\ unit.ret
          /\ v # 0
          /\ \A i \in DOMAIN unreleased :
               IsBullet(unreleased[i]) => unreleased[i] \in Range(unit.file.doc[v].body)

\* ---------------------------------------------------------------- C27
\* create_release has gone through the SPARK prove step of this run
ProveStepDone == cli.action = "release" /\ scan.stage = "run_spark_prove"

\* What C27 says, with NoEdit the ways make spark-prove can end that must
\* leave the release notes alone: after a GitHub release that was created
\* or edited the run ends with True unless it is interrupted, whatever the
\* prove did; the notes are not edited after a prove in NoEdit, and are
\* edited only after run_spark_prove returned success.
ProveNeverFails(NoEdit) ==
  /\ (cli.action = "release" /\ pc = "done" /\ ~Interrupted
        /\ "create_github_release" \in git.ok) =>
       result = "True" /\ exit_code = 0
  /\ ProveStepDone =>
       /\ result = "True"
       /\ git.prove \in NoEdit => "gh release edit --notes" \notin cmds
       /\ "gh release edit --notes" \in cmds => scan.ok

\* C27 as stated: a failing, timed-out or non-zero prove leaves the outcome
\* and the release notes alone.
C27_NonZeroProveNoEdit == ProveNeverFails({"medium only", "errors", "timeout", "exception"})

\* C27 amended: a prove that timed out, raised, or ended non-zero with an
\* error or without an unproved check leaves the outcome and the release
\* notes alone; a non-zero prove with unproved checks only counts as
\* success and the notes are edited.
C27_FailedProveNoEdit == ProveNeverFails({"errors", "timeout", "exception"})

\* the release was created, the prove ended with errors, and create_release
\* returned True without editing the notes
C27_Witness ==
  /\ ProveStepDone
  /\ git.release = "created"
  /\ git.prove = "errors"
  /\ ~scan.ok
  /\ result = "True"
  /\ "gh release edit --notes" \notin cmds


\* ---- C28 ----
\* MAJOR.MINOR.PATCH with optional -prerelease and +build, and nothing else
WellFormedVersion(v) == MajorMinorPatch(VersionText(v))

BadArguments ==
  \/ ~ParseSkip(cli.skip).ok
  \/ cli.version = ""
  \/ ~WellFormedVersion(cli.version)
  \/ ~cli.root

\* main ends with 1 and nothing of the program past the argument tests ran
RejectedStep ==
  /\ pc' = "done" /\ exit_code' = 1
  /\ result' = result
  /\ UNCHANGED <<trace, skip_stages, fs, alire, writes, cmds, touched, git, runs>>

\* C28: an unknown name in --skip, a missing version, a version that is not
\* MAJOR.MINOR.PATCH with optional -prerelease/+build, or a project root that
\* does not exist each make main return 1 before language detection, adapter
\* selection or any stage of the pipeline.
C28_BadArgumentsRejected ==
  [][pc = "main" /\ cli.action \in ActionChoices /\ BadArguments => RejectedStep]_vars


\* ---- C29 ----
ExistingTarget == unit.kind = "brand_project" /\ unit.orig.exists

\* C29: when the target directory already exists, copy_template copies
\* nothing and returns 0, a run that is not a dry run then returns False
\* with no later step executed, and the directory stays as it was.
C29_ExistingTargetUntouched ==
  ExistingTarget =>
    /\ unit.target = unit.orig
    /\ unit.file_count = 0
    /\ unit.done # <<>> /\ ~unit.dry_run =>
         unit.ret = "False" /\ unit.done = <<"copy_template">>

\* a real run has returned False at an existing target that holds files
C29_Witness ==
  /\ ExistingTarget /\ ~unit.dry_run
  /\ unit.orig.tree # <<>>
  /\ unit.source # <<>>
  /\ unit.done = <<"copy_template">> /\ unit.ret = "False"


\* ---- C30 ----
VersionUpdateFailed == pc = "update_version" /\ uv.calls > 0 /\ ~uv.ret
ChangelogUpdateFailed == unit.kind = "update_changelog" /\ unit.calls > 0 /\ ~unit.ret

\* C30: an update that reports failure has written nothing: after
\* update_version returned False alire.toml is as it was before the call, and
\* after update_changelog returned False CHANGELOG.md is as it was before the
\* call.
C30_FailedUpdateNoWrite ==
  /\ VersionUpdateFailed => ~uv.wrote /\ alire = uv.before
  /\ ChangelogUpdateFailed => ~unit.wrote /\ unit.file = unit.before

\* update_changelog has returned False for a later release on a CHANGELOG.md
\* that has sections but no [Unreleased] one
C30_Witness ==
  /\ ChangelogUpdateFailed
  /\ ~unit.is_initial_release /\ ~unit.dry_run
  /\ unit.before.exists /\ unit.before.doc # <<>>
  /\ FirstSec(unit.before.doc, "Unreleased") = 0

====
